---- MODULE Spec2Model ----
(***************************************************************************)
(* Model of the BetterAsk backend routes and of the client's tag state:    *)
(*   POST /api/tags/generate   (server/routes/tags.ts, categorized groups; *)
(*                              and the earlier flat-list snapshot of the  *)
(*                              same route)                                *)
(*   POST /api/gemini/analyze  (server/routes/gemini.ts)                   *)
(*   SmartTagService           (src/services/smart-tag.service.ts)         *)
(*   PromptBuilderComponent    (src/components/prompt-builder, two         *)
(*                              snapshots)                                 *)
(*   PromptAnalyzerComponent   (src/components/prompt-analyzer)            *)
(*                                                                         *)
(* A JavaScript string is a sequence of one-character strings, so that     *)
(* trim(), split(/\s+/) and includes() are computed and not assumed.       *)
(* A handler is split only where the code awaits the generative-model      *)
(* gateway: the part before the await is one action, the continuation      *)
(* (including the catch block) another.                                    *)
(***************************************************************************)
EXTENDS Integers, Sequences, FiniteSets, TLC

VARIABLES
  genAI,            \* TRUE iff GEMINI_API_SECRET was set at start-up (genAI !== null)
  routeVariant,     \* which snapshot of routes/tags is mounted: "grouped" | "flat"
  now,              \* wall clock, minutes
  tagPc,            \* "idle" | "awaiting" (gateway call in flight) | "done"
  tagReq,           \* req.body of the current /generate request
  tagOut,           \* what the gateway call produced for that request
  tagRes,           \* the response sent for that request
  tagGatewayCalled, \* TRUE iff generateContent was invoked for that request
  tagDoneAt,        \* clock value when tagRes was sent
  anPc,             \* "idle" | "awaiting" | "done" for /analyze
  anReq,            \* req.body.studentPrompt of the current /analyze request
  anOut,            \* what the gateway call produced for that request
  anRes,            \* the response sent for that request
  anSent,           \* number of responses sent for that request
  anGatewayCalled,  \* TRUE iff generateContent was invoked for that request
  anBody,           \* improvedPrompt of the body sent for that request
  _intent,          \* SmartTagService signals, named as in the service
  _topic,
  _availableTags,
  _selectedTags,
  _finalPrompt,
  _isLoading,
  _error,
  _isDefaultPrompt,
  _conflictWarnings,
  _isOffline,
  _recentPrompts,
  debounceTimer,    \* handle of the timer setTopic set last (its due time), 0 for null
  timers,           \* due times of the timers that are pending
  inflight,         \* requests of loadSmartTags not yet answered, in issue order
  clock,            \* browser clock, in units of 100 ms
  promptCount,      \* localStorage betterask_prompt_count
  lastPreset,       \* localStorage betterask_last_preset
  tagsFrom,         \* history: what wrote _availableTags last
  lastTopicAt,      \* history: clock value of the last setTopic call
  prevCall,         \* history: the last generatePrompt call that wrote a prompt
  sinceClear,       \* history: "reset" or "setTopic" (with a short topic) when that call
                    \* was made and neither setTopic nor setIntent has been called since
  builderVariant,   \* which snapshot of PromptBuilderComponent runs: "strings" | "objects"
  builderTopic,     \* PromptBuilderComponent.topic
  topicPending,     \* topicSubject holds a value its debounce has not delivered yet
  lastEmitted,      \* the last value distinctUntilChanged let through
  availableSmartTags, \* PromptBuilderComponent signals, named as in the component
  selectedSmartTags,
  revealStage,
  isLoadingTags,
  tagFetches,       \* generateSmartTags calls not yet answered, in issue order
  promptInput,      \* PromptAnalyzerComponent signals, named as in the component
  analysis,
  isLoading,
  error,
  analyzing,        \* analyzeStudentPrompt calls not yet settled, in issue order
  lastAnalyze       \* history: how the last analyzePrompt call went:
                    \* "none" | "started" | "ignoredEmpty" | "ignoredLoading"

tagVars == <<tagPc, tagReq, tagOut, tagRes, tagGatewayCalled, tagDoneAt>>
anVars  == <<anPc, anReq, anOut, anRes, anSent, anGatewayCalled, anBody>>
serverVars == <<genAI, routeVariant, now, tagVars, anVars>>
clientVars ==
  <<_intent, _topic, _availableTags, _selectedTags, _finalPrompt, _isLoading, _error,
    _isDefaultPrompt, _conflictWarnings, _isOffline, _recentPrompts, debounceTimer, timers,
    inflight, clock, promptCount, lastPreset, tagsFrom, lastTopicAt, prevCall,
    sinceClear>>
builderVars ==
  <<builderVariant, builderTopic, topicPending, lastEmitted, availableSmartTags,
    selectedSmartTags, revealStage, isLoadingTags, tagFetches>>
analyzerVars == <<promptInput, analysis, isLoading, error, analyzing, lastAnalyze>>
componentVars == <<builderVars, analyzerVars>>
vars    == <<serverVars, clientVars, componentVars>>

----------------------------------------------------------------------------
(* Bounds *)

MaxTags     == 4    \* most tag strings in one model output
MaxGroupLen == 2    \* most tag strings in one category array of a model output
MaxBriefTags == 1   \* most tag strings in a model output of the clocked specification
MaxTime     == 15   \* last clock value, minutes
TickMinutes == 5    \* clock granularity, minutes
MaxInFlight == 2    \* most requests of loadSmartTags pending at once
MaxSelectInFlight == 1 \* the same, while the user selects tags
MaxClick    == 6    \* the user clicks among this many of the tags shown (selection)
MaxLoadsClick == 1  \* the user clicks among this many of the tags shown (loads)
MaxTypingInFlight == 1 \* the same, while the clock runs
MaxPromptCount == 3 \* most prompts generated from tags
MaxClock    == 12   \* last value of the browser clock
MaxBuilderInFlight == 2 \* most generateSmartTags calls of the builder pending at once
MaxAnswerLen == 2   \* most tags in one answer to the builder
MaxBuilderClick == 4 \* the user clicks among this many of the tags the builder shows
MaxAnalyzing == 2   \* most analyzeStudentPrompt calls the model lets be pending at once
MaxPromptLen == 40  \* longest prompt the analyzer's input grows to

----------------------------------------------------------------------------
(* JavaScript strings *)

Whitespace  == {" ", "\t"}
Punctuation == {",", "!"}

IsSpace(c) == c \in Whitespace

RECURSIVE TrimStart(_)
TrimStart(s) ==
  IF s = <<>> THEN s
  ELSE IF IsSpace(Head(s)) THEN TrimStart(Tail(s)) ELSE s

RECURSIVE TrimEnd(_)
TrimEnd(s) ==
  IF s = <<>> THEN s
  ELSE IF IsSpace(s[Len(s)]) THEN TrimEnd(SubSeq(s, 1, Len(s) - 1)) ELSE s

\* String.prototype.trim
Trim(s) == TrimEnd(TrimStart(s))

\* String.prototype.split(/\s+/): cur is the piece being read, inSep is TRUE
\* while inside a run of whitespace.  "" splits to [""], " a" to ["", "a"].
RECURSIVE SplitWs(_, _, _)
SplitWs(s, cur, inSep) ==
  IF s = <<>> THEN <<cur>>
  ELSE IF IsSpace(Head(s))
       THEN IF inSep THEN SplitWs(Tail(s), cur, TRUE)
                     ELSE <<cur>> \o SplitWs(Tail(s), <<>>, TRUE)
       ELSE SplitWs(Tail(s), Append(cur, Head(s)), FALSE)

Split(s) == SplitWs(s, <<>>, FALSE)

----------------------------------------------------------------------------
(* Values the environment supplies *)

Undefined == "<undefined>"      \* a field missing from req.body
Empty     == ""
FieldValues == {Undefined, Empty, "given"}

\* !x for a request field
Falsy(x) == x \in {Undefined, Empty}

\* candidate tag strings the model may put in its output
TooShort == <<"a", " ", "b">>
Clean3   == <<"A", " ", "b", " ", "c">>
Messy4   == <<" ", "d", ",", " ", " ", "e", "\t", "f", " ", "g", "!">>
TooLong  == <<"h", " ", "i", " ", "j", " ", "k", " ", "l">>
NonString == <<"<number>">>     \* an array element that is not a string
TagPool  == <<TooShort, Clean3, Messy4>>

\* tags the caller may already hold
LowerClean3 == <<"a", " ", "b", " ", "c">>
SelectedChoices == {<<>>, <<LowerClean3>>}
VisibleChoices  == {<<>>}

Categories ==
  <<"personaStyle", "addContext", "taskInstruction", "formatConstraints", "reasoningHelp">>

RECURSIVE SeqsUpTo(_, _)
SeqsUpTo(S, n) ==
  IF n = 0 THEN {<<>>}
  ELSE LET shorter == SeqsUpTo(S, n - 1)
       IN  shorter \cup {Append(q, x) : q \in {r \in shorter : Len(r) = n - 1}, x \in S}

Min(a, b) == IF a < b THEN a ELSE b

\* how many tags each of the five category arrays holds: at most MaxGroupLen
\* each and at most maxTags in total
GroupSizes(maxTags) ==
  {n \in [1..5 -> 0..MaxGroupLen] : n[1] + n[2] + n[3] + n[4] + n[5] <= maxTags}

\* the tag strings named by a sequence of positions in TagPool
Tags(ids) == [j \in 1..Len(ids) |-> TagPool[ids[j]]]

Arr(items) == [isArray |-> TRUE, items |-> items]
NotArr     == [isArray |-> FALSE, items |-> <<>>]

AsParsed(t) ==
  [personaStyle |-> t[1], addContext |-> t[2], taskInstruction |-> t[3],
   formatConstraints |-> t[4], reasoningHelp |-> t[5]]

NoParsed == AsParsed(<<NotArr, NotArr, NotArr, NotArr, NotArr>>)

Outcome(kind, isError, message, isNull, parsed, flat) ==
  [kind |-> kind, isError |-> isError, message |-> message,
   isNull |-> isNull, parsed |-> parsed, flat |-> flat]

NoOutcome == Outcome("none", FALSE, "", FALSE, NoParsed, NotArr)

\* outcomes of the awaited call that are not a JSON object of arrays
FailedOutcomes ==
  { Outcome("rejects", TRUE, "fetch failed", FALSE, NoParsed, NotArr),
    Outcome("rejects", FALSE, "", FALSE, NoParsed, NotArr),
    Outcome("noText", TRUE, "Cannot read properties of undefined", FALSE, NoParsed, NotArr),
    Outcome("badJson", TRUE, "Unexpected token", FALSE, NoParsed, NotArr),
    Outcome("json", FALSE, "", TRUE, NoParsed, NotArr) }

\* JSON objects with a missing category, a non-string element or an overlong tag
OddParsed ==
  { AsParsed(<<NotArr, Arr(<<Clean3>>), NotArr, Arr(<<>>), Arr(<<Messy4>>)>>),
    AsParsed(<<Arr(<<Clean3, NonString>>), Arr(<<>>), Arr(<<>>), Arr(<<>>), Arr(<<>>)>>),
    AsParsed(<<Arr(<<TooLong>>), Arr(<<>>), Arr(<<>>), Arr(<<>>), Arr(<<>>)>>),
    AsParsed(<<Arr(<<>>), Arr(<<TooLong, Messy4>>), Arr(<<>>), Arr(<<Clean3>>), Arr(<<TooLong>>)>>) }

\* the outcomes other than a JSON object of string arrays
GroupedOddOutcomes ==
  FailedOutcomes \cup {Outcome("json", FALSE, "", FALSE, p, NotArr) : p \in OddParsed}

FlatOddOutcomes ==
  FailedOutcomes
  \cup {Outcome("json", FALSE, "", FALSE, NoParsed, f) :
          f \in {NotArr, Arr(<<Clean3, NonString>>), Arr(<<TooLong>>),
                  Arr(<<TooLong, Messy4, Clean3, TooLong>>)}}

----------------------------------------------------------------------------
(* POST /api/tags/generate *)

TagRequest(topic, intent, persona, stage, selectedTags, visibleTags) ==
  [topic |-> topic, intent |-> intent, persona |-> persona, stage |-> stage,
   selectedTags |-> selectedTags, visibleTags |-> visibleTags]

NoRequest == TagRequest(Undefined, Undefined, Undefined, 1, <<>>, <<>>)

EmptyGroups ==
  [personaStyle |-> <<>>, addContext |-> <<>>, taskInstruction |-> <<>>,
   formatConstraints |-> <<>>, reasoningHelp |-> <<>>]

\* keys is the set of keys present in the JSON body; a field whose key is
\* absent holds its default here
TagResponse(status, keys, success, fallback, tags, groups, message) ==
  [status |-> status, keys |-> keys, success |-> success, fallback |-> fallback,
   tags |-> tags, groups |-> groups, message |-> message]

NoResponse == TagResponse(0, {}, FALSE, FALSE, <<>>, EmptyGroups, "")

\* res.status(400).json({ success: false, message: 'Missing required fields' })
BadRequestResponse ==
  TagResponse(400, {"success", "message"}, FALSE, FALSE, <<>>, EmptyGroups,
              "Missing required fields")

\* variant: the failure paths answer with a server error
FallbackResponseAsServerError(message) ==
  TagResponse(500, {"success", "tags", "fallback", "message"}, FALSE, TRUE, <<>>,
              EmptyGroups, message)

\* res.json({ success: false, tags: [], fallback: true, message })
FallbackResponse(message) ==
  TagResponse(200, {"success", "tags", "fallback", "message"}, FALSE, TRUE, <<>>,
              EmptyGroups, message)

\* variant: the credential is checked before the fields
TagsPreflightConfigFirst(topic, intent, persona, configured) ==
  IF ~configured THEN "notConfigured"
  ELSE IF Falsy(topic) \/ Falsy(intent) \/ Falsy(persona) THEN "badRequest"
  ELSE "generate"

\* the checks made before the try block
TagsPreflight(topic, intent, persona, configured) ==
  IF Falsy(topic) \/ Falsy(intent) \/ Falsy(persona) THEN "badRequest"
  ELSE IF ~configured THEN "notConfigured"
  ELSE "generate"

\* const count = stage === 1 ? 3 : 5
count(stage) == IF stage = 1 THEN 3 ELSE 5

\* [...new Set([...selectedTags, ...visibleTags])]
RECURSIVE Dedup(_, _)
Dedup(s, seen) ==
  IF s = <<>> THEN <<>>
  ELSE IF Head(s) \in seen THEN Dedup(Tail(s), seen)
       ELSE <<Head(s)>> \o Dedup(Tail(s), seen \cup {Head(s)})

existingTags(selectedTags, visibleTags) == Dedup(selectedTags \o visibleTags, {})

\* variant: the lower bound of the word-count test is off by one
WordCountOkFromTwo(tag) ==
  LET words == Split(Trim(tag))
  IN  Len(words) >= 2 /\ Len(words) <= 4

\* the word-count test applied to one candidate
WordCountOk(tag) ==
  LET words == Split(Trim(tag))
  IN  Len(words) >= 3 /\ Len(words) <= 4

\* const validateTags = (tags) => Array.isArray(tags) ? tags.filter(...) : []
validateTags(tags) ==
  IF ~tags.isArray THEN <<>> ELSE SelectSeq(tags.items, WordCountOk)

\* tag.trim() throws a TypeError on an element that is not a string
TrimThrows(tags) ==
  tags.isArray /\ \E i \in 1..Len(tags.items) : tags.items[i] = NonString

\* error instanceof Error ? error.message : 'Unknown error'
CatchMessage(out) == IF out.isError THEN out.message ELSE "Unknown error"

\* variant: the flat list follows the alphabetical order of the category keys
GroupedContinuationKeyOrder(out) ==
  IF out.kind # "json" THEN FallbackResponse(CatchMessage(out))
  ELSE IF out.isNull THEN FallbackResponse("Cannot read properties of null")
  ELSE IF \E i \in 1..5 : TrimThrows(out.parsed[Categories[i]])
       THEN FallbackResponse("tag.trim is not a function")
  ELSE
    LET groups == [c \in DOMAIN out.parsed |-> validateTags(out.parsed[c])]
        allTags == groups.addContext \o groups.formatConstraints \o groups.personaStyle
                   \o groups.reasoningHelp \o groups.taskInstruction
    IN  IF allTags = <<>>
        THEN FallbackResponse("No valid tags generated after validation")
        ELSE TagResponse(200, {"success", "groups", "tags", "fallback"}, TRUE, FALSE,
                         allTags, groups, "")

\* tags.ts: everything after the awaited call, catch block included
GroupedContinuation(out) ==
  IF out.kind # "json" THEN FallbackResponse(CatchMessage(out))
  ELSE IF out.isNull THEN FallbackResponse("Cannot read properties of null")
  ELSE IF \E i \in 1..5 : TrimThrows(out.parsed[Categories[i]])
       THEN FallbackResponse("tag.trim is not a function")
  ELSE
    LET groups == [c \in DOMAIN out.parsed |-> validateTags(out.parsed[c])]
        allTags == groups.personaStyle \o groups.addContext \o groups.taskInstruction
                   \o groups.formatConstraints \o groups.reasoningHelp
    IN  IF allTags = <<>>
        THEN FallbackResponse("No valid tags generated after validation")
        ELSE TagResponse(200, {"success", "groups", "tags", "fallback"}, TRUE, FALSE,
                         allTags, groups, "")

\* generatedTags.slice(0, count)
Slice(s, n) == SubSeq(s, 1, Min(n, Len(s)))

\* the flat-list snapshot: everything after the awaited call, catch block included
FlatContinuation(stage, out) ==
  IF out.kind # "json" THEN FallbackResponse(CatchMessage(out))
  ELSE IF out.isNull THEN FallbackResponse("Cannot read properties of null")
  ELSE IF TrimThrows(out.flat) THEN FallbackResponse("tag.trim is not a function")
  ELSE
    LET generatedTags == validateTags(out.flat)
    IN  IF generatedTags = <<>>
        THEN FallbackResponse("No valid tags generated after validation")
        ELSE TagResponse(200, {"success", "tags", "fallback"}, TRUE, FALSE,
                         Slice(generatedTags, count(stage)), EmptyGroups, "")

\* every combination of missing, empty and given fields, and for the
\* requests that pass validation every stage and set of existing tags
TagRequests ==
  {TagRequest(t, i, p, 1, <<>>, <<>>) :
     t \in FieldValues, i \in FieldValues, p \in FieldValues}
  \cup {TagRequest("given", "given", "given", s, sel, vis) :
          s \in 1..2, sel \in SelectedChoices, vis \in VisibleChoices}

\* router.post('/generate'): from the start of the handler to the awaited call
PostGenerate ==
  /\ tagPc \in {"idle", "done"}
  /\ \E req \in TagRequests :
       LET route == TagsPreflight(req.topic, req.intent, req.persona, genAI)
       IN  /\ tagReq' = req
           /\ tagOut' = NoOutcome
           /\ tagDoneAt' = now
           /\ IF route = "badRequest"
                THEN /\ tagRes' = BadRequestResponse
                     /\ tagPc' = "done"
                     /\ tagGatewayCalled' = FALSE
              ELSE IF route = "notConfigured"
                THEN /\ tagRes' = FallbackResponse("Gemini API not configured")
                     /\ tagPc' = "done"
                     /\ tagGatewayCalled' = FALSE
              ELSE /\ tagRes' = NoResponse
                   /\ tagPc' = "awaiting"
                   /\ tagGatewayCalled' = TRUE
  /\ UNCHANGED <<genAI, routeVariant, now, anVars, clientVars, componentVars>>

Continuation(variant, req, out) ==
  IF variant = "grouped" THEN GroupedContinuation(out)
  ELSE FlatContinuation(req.stage, out)

Settle(out) ==
  /\ tagOut' = out
  /\ tagRes' = Continuation(routeVariant, tagReq, out)
  /\ tagPc' = "done"
  /\ tagDoneAt' = now
  /\ UNCHANGED <<genAI, routeVariant, now, tagReq, tagGatewayCalled, anVars, clientVars, componentVars>>

\* the handler resumes with some outcome of the awaited call, categorized
\* route: an odd outcome, or a JSON object whose five arrays hold tags of TagPool
GroupedSettles(maxTags) ==
  \/ \E out \in GroupedOddOutcomes : Settle(out)
  \/ \E n \in GroupSizes(maxTags) :
        \E g1 \in [1..n[1] -> DOMAIN TagPool], g2 \in [1..n[2] -> DOMAIN TagPool],
           g3 \in [1..n[3] -> DOMAIN TagPool], g4 \in [1..n[4] -> DOMAIN TagPool],
           g5 \in [1..n[5] -> DOMAIN TagPool] :
          Settle(Outcome("json", FALSE, "", FALSE,
                         AsParsed(<<Arr(Tags(g1)), Arr(Tags(g2)), Arr(Tags(g3)),
                                    Arr(Tags(g4)), Arr(Tags(g5))>>), NotArr))

\* the same for the flat-list snapshot
FlatSettles(maxTags) ==
  \/ \E out \in FlatOddOutcomes : Settle(out)
  \/ \E q \in SeqsUpTo(DOMAIN TagPool, maxTags) :
        Settle(Outcome("json", FALSE, "", FALSE, NoParsed, Arr(Tags(q))))

\* the awaited generateContent call settles and the handler runs to its end
GatewaySettles ==
  /\ tagPc = "awaiting"
  /\ IF routeVariant = "grouped" THEN GroupedSettles(MaxTags) ELSE FlatSettles(MaxTags)

\* the same, with the short model outputs of the clocked specification
GatewaySettlesBrief ==
  /\ tagPc = "awaiting"
  /\ IF routeVariant = "grouped" THEN GroupedSettles(MaxBriefTags)
                                  ELSE FlatSettles(MaxBriefTags)

\* time passes
Tick ==
  /\ now + TickMinutes <= MaxTime
  /\ now' = now + TickMinutes
  /\ UNCHANGED <<genAI, routeVariant, tagVars, anVars, clientVars, componentVars>>

----------------------------------------------------------------------------
(* POST /api/gemini/analyze *)

\* a JavaScript value found in req.body.studentPrompt
Prompt(type, num, chars) == [type |-> type, num |-> num, chars |-> chars]

StudentPrompts ==
  { Prompt("undefined", 0, <<>>),
    Prompt("number", 0, <<>>),
    Prompt("number", 5, <<>>),
    Prompt("string", 0, <<>>),
    Prompt("string", 0, <<" ", "\t">>),
    Prompt("string", 0, <<"h", "i">>),
    Prompt("string", 0, <<" ", "h", "i", " ">>) }

\* !studentPrompt
FalsyPrompt(p) ==
  \/ p.type = "undefined"
  \/ p.type = "number" /\ p.num = 0
  \/ p.type = "string" /\ p.chars = <<>>

\* variant: the credential is checked before the prompt
AnalyzePreflightConfigFirst(studentPrompt, configured) ==
  IF ~configured THEN 500
  ELSE IF \/ FalsyPrompt(studentPrompt)
          \/ studentPrompt.type # "string"
          \/ Trim(studentPrompt.chars) = <<>>
  THEN 400
  ELSE 0

\* the checks made before the try block: 400, 500, or 0 to go on
AnalyzePreflight(studentPrompt, configured) ==
  IF \/ FalsyPrompt(studentPrompt)
     \/ studentPrompt.type # "string"
     \/ Trim(studentPrompt.chars) = <<>>
  THEN 400
  ELSE IF ~configured THEN 500
  ELSE 0

\* the substrings error.message is searched for; an error is modelled by the
\* set of those its message includes, its status and its code
Keywords == {"API key", "401", "quota", "rate limit", "429", "model", "permission"}
ErrorStatuses == {0, 401, 403, 429, 500}   \* 0: error.status is undefined
ErrorCodes == {"", "ECONNREFUSED", "ETIMEDOUT", "ENOTFOUND", "ECONNRESET"}
ConnectivityCodes == {"ECONNREFUSED", "ETIMEDOUT", "ENOTFOUND"}

\* a JavaScript value of the parsed model output
Js(type, val) == [type |-> type, val |-> val]
JsUndefined == Js("undefined", <<>>)
JsNull == Js("null", <<>>)

\* the properties of improvedPrompt in the response schema
StringFields == {"role", "context", "task", "persona", "format", "tone"}
ImprovedFields == StringFields \cup {"exemplars"}

\* what the model may put in a property: nothing, null, or a value of the
\* type the response schema gives the property
FieldOutputs(f) ==
  IF f = "exemplars"
    THEN {JsUndefined, JsNull, Js("array", <<>>), Js("array", <<"e">>)}
    ELSE {JsUndefined, JsNull, Js("string", <<>>), Js("string", <<"m", f>>)}

\* parsedResponse.improvedPrompt is undefined
NoImproved == [f \in ImprovedFields |-> JsUndefined]

AnalyzeOutcome(kind, includes, status, code, isNull, hasImproved, improved) ==
  [kind |-> kind, includes |-> includes, status |-> status, code |-> code,
   isNull |-> isNull, hasImproved |-> hasImproved, improved |-> improved]

NoAnalyzeOutcome == AnalyzeOutcome("none", {}, 0, "", FALSE, FALSE, NoImproved)

\* outcomes of the awaited call other than a parsed object
AnalyzeOutcomes ==
  {AnalyzeOutcome("rejects", m, st, c, FALSE, FALSE, NoImproved) :
     m \in SUBSET Keywords, st \in ErrorStatuses, c \in ErrorCodes}
  \cup {AnalyzeOutcome("badJson", m, 0, "", FALSE, FALSE, NoImproved) : m \in SUBSET Keywords}
  \cup {AnalyzeOutcome("json", {}, 0, "", TRUE, FALSE, NoImproved)}
  \cup {AnalyzeOutcome("json", {}, 0, "", FALSE, FALSE, NoImproved)}

\* the catch block: the status of the first test that matches
CatchStatus(err) ==
  IF "API key" \in err.includes \/ "401" \in err.includes \/ err.status = 401
    THEN 401
  ELSE IF \/ "quota" \in err.includes \/ "rate limit" \in err.includes
          \/ "429" \in err.includes \/ err.status = 429
    THEN 429
  ELSE IF "model" \in err.includes \/ "permission" \in err.includes
          \/ err.status = 403
    THEN 403
  ELSE IF err.code \in ConnectivityCodes
    THEN 503
  ELSE 500

\* everything after the awaited call: the status of the response
AnalyzeContinuation(out) ==
  IF out.kind = "json" /\ ~out.isNull THEN 200
  ELSE CatchStatus(out)

\* a value is truthy: a non-empty string or any array
Truthy(v) == v.type = "array" \/ (v.type = "string" /\ v.val # <<>>)

\* v || d
OrElse(v, d) == IF Truthy(v) THEN v ELSE d

\* variant: task defaults to null like the other properties
improvedPromptTaskNull(improved, studentPrompt) ==
  [f \in ImprovedFields |-> OrElse(improved[f], JsNull)]

\* output.improvedPrompt: every property defaults to null, task to studentPrompt
improvedPrompt(improved, studentPrompt) ==
  [f \in ImprovedFields |->
     IF f = "task" THEN OrElse(improved[f], Js("string", studentPrompt.chars))
     ELSE OrElse(improved[f], JsNull)]

\* no improvedPrompt was sent (an error body)
NoBody == <<>>

\* the improvedPrompt of the body sent after the awaited call
AnalyzeBody(out, studentPrompt) ==
  IF AnalyzeContinuation(out) = 200
    THEN improvedPrompt(IF out.hasImproved THEN out.improved ELSE NoImproved, studentPrompt)
    ELSE NoBody

\* router.post('/analyze'): from the start of the handler to the awaited call
PostAnalyze ==
  /\ anPc \in {"idle", "done"}
  /\ \E studentPrompt \in StudentPrompts :
       LET status == AnalyzePreflight(studentPrompt, genAI)
       IN  /\ anReq' = studentPrompt
           /\ anOut' = NoAnalyzeOutcome
           /\ IF status # 0
                THEN /\ anRes' = status
                     /\ anBody' = NoBody
                     /\ anSent' = 1
                     /\ anPc' = "done"
                     /\ anGatewayCalled' = FALSE
                ELSE /\ anRes' = 0
                     /\ anBody' = NoBody
                     /\ anSent' = 0
                     /\ anPc' = "awaiting"
                     /\ anGatewayCalled' = TRUE
  /\ UNCHANGED <<genAI, routeVariant, now, tagVars, clientVars, componentVars>>

\* the awaited generateContent call settles and the handler runs to its end
AnalyzeSettle(out) ==
  /\ anOut' = out
  /\ anRes' = AnalyzeContinuation(out)
  /\ anBody' = AnalyzeBody(out, anReq)
  /\ anSent' = anSent + 1
  /\ anPc' = "done"

AnalyzeGatewaySettles ==
  /\ anPc = "awaiting"
  /\ \/ \E out \in AnalyzeOutcomes : AnalyzeSettle(out)
     \/ \E role \in FieldOutputs("role"), context \in FieldOutputs("context"),
           task \in FieldOutputs("task"), exemplars \in FieldOutputs("exemplars"),
           persona \in FieldOutputs("persona"), format \in FieldOutputs("format"),
           tone \in FieldOutputs("tone") :
          AnalyzeSettle(AnalyzeOutcome("json", {}, 0, "", FALSE, TRUE,
            [f \in ImprovedFields |->
               CASE f = "role" -> role [] f = "context" -> context
                 [] f = "task" -> task [] f = "exemplars" -> exemplars
                 [] f = "persona" -> persona [] f = "format" -> format
                 [] OTHER -> tone]))
  /\ UNCHANGED <<genAI, routeVariant, now, tagVars, anReq, anGatewayCalled, clientVars, componentVars>>

----------------------------------------------------------------------------
(* SmartTagService (src/services/smart-tag.service.ts): data *)

Null == "<null>"                       \* null (no intent, no error)
Intents == {"learn", "test"}           \* values of Intent the model uses

\* topics typed by the user: too short (0 and 3 characters) and valid ones
NoTopic == ""
ShortTopic == "abc"
Atom == "atom"
Cell == "cell"

\* setTimeout(..., 500), in clock units of 100 ms
DebounceDelay == 5

\* messages written to the error signal
NoInternet == "No internet. Using offline suggestions."
UsingFallback == "Using fallback suggestions. API temporarily unavailable."
FailedToGenerate == "Failed to generate tags"
ApiError == "API error. Using fallback suggestions."
MaximumTags == "Maximum 5 tags can be selected"
ProvideTopicAndIntent == "Please provide topic and intent"
ServerMessage == "Gemini API not configured"

\* `tag-${n}` and `tag-default-${cat}-${n}`
TagId(prefix, cat, n) == [prefix |-> prefix, cat |-> cat, n |-> n]

TagItem(id, text, category, selected) ==
  [id |-> id, text |-> text, category |-> category, selected |-> selected]

\* the list useFallbackTags installs
fallbackTags ==
  << TagItem(TagId("tag", "", 1), "Act as a patient teacher explaining to a student", "role", FALSE),
     TagItem(TagId("tag", "", 2), "Act as a friendly study partner", "role", FALSE),
     TagItem(TagId("tag", "", 3), "Act as an expert tutor in this subject", "role", FALSE),
     TagItem(TagId("tag", "", 4), "Student in class 10 studying this topic", "context", FALSE),
     TagItem(TagId("tag", "", 5), "Preparing for understanding and exams", "context", FALSE),
     TagItem(TagId("tag", "", 6), "Use simple bullet points", "output", FALSE),
     TagItem(TagId("tag", "", 7), "Provide step-by-step examples", "output", FALSE),
     TagItem(TagId("tag", "", 8), "Keep explanations short and clear", "tone", FALSE),
     TagItem(TagId("tag", "", 9), "Avoid complex jargon", "tone", FALSE),
     TagItem(TagId("tag", "", 10), "Explain the core concepts simply", "thinking", FALSE),
     TagItem(TagId("tag", "", 11), "Create a practice quiz with answers", "thinking", FALSE) >>

categoryMap(backendCat) ==
  CASE backendCat = "role" -> "role"
    [] backendCat = "context" -> "context"
    [] backendCat = "format" -> "output"
    [] backendCat = "constraints" -> "tone"
    [] backendCat = "task" -> "thinking"
    [] OTHER -> backendCat

requiredCategories == <<"role", "context", "output", "tone", "thinking">>

safeDefaults(cat) ==
  CASE cat = "role" -> "Act as an expert teacher"
    [] cat = "context" -> "For a student learning this topic"
    [] cat = "output" -> "Use clear bullet points"
    [] cat = "tone" -> "Keep it simple and encouraging"
    [] OTHER -> "Explain the key concepts"

\* the body of an HTTP answer to POST /tags/generate, or a failed request;
\* tags is the list of [key, value] entries of response.tags in key order
SmartTagsResponse(ok, success, hasTags, tags, fallback, hasMessage) ==
  [ok |-> ok, success |-> success, hasTags |-> hasTags, tags |-> tags,
   fallback |-> fallback, hasMessage |-> hasMessage]

Entry(key, texts) == [key |-> key, texts |-> texts]

\* tag texts a server answer may carry
Coach == "Act as a friendly coach"
BeBrief == "Be brief"
BeComprehensive == "Be Comprehensive"
Examiner == "Act as a formal examiner"
QuizMe == "Quiz me"

\* a categorized answer: one format tag, two role tags, one constraints tag
\* and one task tag
CategorizedResponse ==
  SmartTagsResponse(TRUE, TRUE, TRUE,
    << Entry("format", <<BeBrief>>), Entry("role", <<Coach, Examiner>>),
       Entry("constraints", <<BeComprehensive>>), Entry("task", <<QuizMe>>) >>,
    FALSE, FALSE)

\* an answer whose tags is a flat array (its keys are the indices), marked
\* as a fallback
FlatArrayResponse ==
  SmartTagsResponse(TRUE, TRUE, TRUE, << Entry("0", <<BeBrief>>), Entry("1", <<Coach>>) >>, TRUE, FALSE)

\* success without a tags property
NoTagsResponse == SmartTagsResponse(TRUE, TRUE, FALSE, <<>>, FALSE, FALSE)

\* success=false, with and without a message
RefusedResponse == SmartTagsResponse(TRUE, FALSE, TRUE, <<>>, TRUE, TRUE)
SilentRefusedResponse == SmartTagsResponse(TRUE, FALSE, TRUE, <<>>, FALSE, FALSE)

\* the request failed (network error or an HTTP error status)
FailedRequest == SmartTagsResponse(FALSE, FALSE, FALSE, <<>>, FALSE, FALSE)

AllResponses ==
  {CategorizedResponse, FlatArrayResponse, NoTagsResponse, RefusedResponse,
   SilentRefusedResponse, FailedRequest}

\* categoryTags.forEach(text => tags.push(...)), idCounter being Len(tags) + 1
RECURSIVE PushTexts(_, _, _)
PushTexts(tags, texts, frontendCat) ==
  IF texts = <<>> THEN tags
  ELSE PushTexts(Append(tags, TagItem(TagId("tag", "", Len(tags) + 1), Head(texts),
                                      frontendCat, FALSE)),
                 Tail(texts), frontendCat)

\* Object.keys(response.tags).forEach(...)
RECURSIVE PushCategories(_, _)
PushCategories(tags, entries) ==
  IF entries = <<>> THEN tags
  ELSE LET frontendCat == categoryMap(Head(entries).key)
       IN  PushCategories(
             IF frontendCat \in {"role", "context", "output", "tone", "thinking"}
               THEN PushTexts(tags, Head(entries).texts, frontendCat)
               ELSE tags,
             Tail(entries))

\* requiredCategories.forEach(...): a default tag for each category without one
RECURSIVE PushDefaults(_, _)
PushDefaults(tags, cats) ==
  IF cats = <<>> THEN tags
  ELSE LET cat == Head(cats)
           hasCategory == \E i \in 1..Len(tags) : tags[i].category = cat
       IN  PushDefaults(
             IF hasCategory THEN tags
             ELSE Append(tags, TagItem(TagId("tag-default", cat, Len(tags) + 1),
                                       safeDefaults(cat), cat, FALSE)),
             Tail(cats))

\* the TagItem array built from a success answer
TagItems(response) == PushDefaults(PushCategories(<<>>, response.tags), requiredCategories)

\* the characters of the strings the service handles
Chars(s) ==
  CASE s = "" -> <<>>
    [] s = "abc" -> <<"a", "b", "c">>
    [] s = "atom" -> <<"a", "t", "o", "m">>
    [] s = "cell" -> <<"c", "e", "l", "l">>
    [] s = "Act as a patient teacher explaining to a student" -> <<"A", "c", "t", " ", "a", "s", " ", "a", " ", "p", "a", "t", "i", "e", "n", "t", " ", "t", "e", "a", "c", "h", "e", "r", " ", "e", "x", "p", "l", "a", "i", "n", "i", "n", "g", " ", "t", "o", " ", "a", " ", "s", "t", "u", "d", "e", "n", "t">>
    [] s = "Act as a friendly study partner" -> <<"A", "c", "t", " ", "a", "s", " ", "a", " ", "f", "r", "i", "e", "n", "d", "l", "y", " ", "s", "t", "u", "d", "y", " ", "p", "a", "r", "t", "n", "e", "r">>
    [] s = "Act as an expert tutor in this subject" -> <<"A", "c", "t", " ", "a", "s", " ", "a", "n", " ", "e", "x", "p", "e", "r", "t", " ", "t", "u", "t", "o", "r", " ", "i", "n", " ", "t", "h", "i", "s", " ", "s", "u", "b", "j", "e", "c", "t">>
    [] s = "Student in class 10 studying this topic" -> <<"S", "t", "u", "d", "e", "n", "t", " ", "i", "n", " ", "c", "l", "a", "s", "s", " ", "1", "0", " ", "s", "t", "u", "d", "y", "i", "n", "g", " ", "t", "h", "i", "s", " ", "t", "o", "p", "i", "c">>
    [] s = "Preparing for understanding and exams" -> <<"P", "r", "e", "p", "a", "r", "i", "n", "g", " ", "f", "o", "r", " ", "u", "n", "d", "e", "r", "s", "t", "a", "n", "d", "i", "n", "g", " ", "a", "n", "d", " ", "e", "x", "a", "m", "s">>
    [] s = "Use simple bullet points" -> <<"U", "s", "e", " ", "s", "i", "m", "p", "l", "e", " ", "b", "u", "l", "l", "e", "t", " ", "p", "o", "i", "n", "t", "s">>
    [] s = "Provide step-by-step examples" -> <<"P", "r", "o", "v", "i", "d", "e", " ", "s", "t", "e", "p", "-", "b", "y", "-", "s", "t", "e", "p", " ", "e", "x", "a", "m", "p", "l", "e", "s">>
    [] s = "Keep explanations short and clear" -> <<"K", "e", "e", "p", " ", "e", "x", "p", "l", "a", "n", "a", "t", "i", "o", "n", "s", " ", "s", "h", "o", "r", "t", " ", "a", "n", "d", " ", "c", "l", "e", "a", "r">>
    [] s = "Avoid complex jargon" -> <<"A", "v", "o", "i", "d", " ", "c", "o", "m", "p", "l", "e", "x", " ", "j", "a", "r", "g", "o", "n">>
    [] s = "Explain the core concepts simply" -> <<"E", "x", "p", "l", "a", "i", "n", " ", "t", "h", "e", " ", "c", "o", "r", "e", " ", "c", "o", "n", "c", "e", "p", "t", "s", " ", "s", "i", "m", "p", "l", "y">>
    [] s = "Create a practice quiz with answers" -> <<"C", "r", "e", "a", "t", "e", " ", "a", " ", "p", "r", "a", "c", "t", "i", "c", "e", " ", "q", "u", "i", "z", " ", "w", "i", "t", "h", " ", "a", "n", "s", "w", "e", "r", "s">>
    [] s = "Act as an expert teacher" -> <<"A", "c", "t", " ", "a", "s", " ", "a", "n", " ", "e", "x", "p", "e", "r", "t", " ", "t", "e", "a", "c", "h", "e", "r">>
    [] s = "For a student learning this topic" -> <<"F", "o", "r", " ", "a", " ", "s", "t", "u", "d", "e", "n", "t", " ", "l", "e", "a", "r", "n", "i", "n", "g", " ", "t", "h", "i", "s", " ", "t", "o", "p", "i", "c">>
    [] s = "Use clear bullet points" -> <<"U", "s", "e", " ", "c", "l", "e", "a", "r", " ", "b", "u", "l", "l", "e", "t", " ", "p", "o", "i", "n", "t", "s">>
    [] s = "Keep it simple and encouraging" -> <<"K", "e", "e", "p", " ", "i", "t", " ", "s", "i", "m", "p", "l", "e", " ", "a", "n", "d", " ", "e", "n", "c", "o", "u", "r", "a", "g", "i", "n", "g">>
    [] s = "Explain the key concepts" -> <<"E", "x", "p", "l", "a", "i", "n", " ", "t", "h", "e", " ", "k", "e", "y", " ", "c", "o", "n", "c", "e", "p", "t", "s">>
    [] s = "Act as a friendly coach" -> <<"A", "c", "t", " ", "a", "s", " ", "a", " ", "f", "r", "i", "e", "n", "d", "l", "y", " ", "c", "o", "a", "c", "h">>
    [] s = "Be brief" -> <<"B", "e", " ", "b", "r", "i", "e", "f">>
    [] s = "Be Comprehensive" -> <<"B", "e", " ", "C", "o", "m", "p", "r", "e", "h", "e", "n", "s", "i", "v", "e">>
    [] s = "Quiz me" -> <<"Q", "u", "i", "z", " ", "m", "e">>
    [] s = "Step By Step Guide" -> <<"S", "t", "e", "p", " ", "B", "y", " ", "S", "t", "e", "p", " ", "G", "u", "i", "d", "e">>
    [] s = "Use Simple Analogy" -> <<"U", "s", "e", " ", "S", "i", "m", "p", "l", "e", " ", "A", "n", "a", "l", "o", "g", "y">>
    [] s = "Give Five Real World Examples" -> <<"G", "i", "v", "e", " ", "F", "i", "v", "e", " ", "R", "e", "a", "l", " ", "W", "o", "r", "l", "d", " ", "E", "x", "a", "m", "p", "l", "e", "s">>
    [] s = "Act as a formal examiner" -> <<"A", "c", "t", " ", "a", "s", " ", "a", " ", "f", "o", "r", "m", "a", "l", " ", "e", "x", "a", "m", "i", "n", "e", "r">>

\* String.prototype.length
length(s) == Len(Chars(s))

\* String.prototype.toLowerCase on the letters the model's texts use
UpperCase == <<"A", "B", "C", "E", "F", "K", "P", "Q", "S", "U">>
LowerCaseOf == <<"a", "b", "c", "e", "f", "k", "p", "q", "s", "u">>
toLowerCase(s) ==
  [i \in 1..Len(s) |->
     IF \E k \in 1..Len(UpperCase) : UpperCase[k] = s[i]
       THEN LowerCaseOf[CHOOSE k \in 1..Len(UpperCase) : UpperCase[k] = s[i]]
       ELSE s[i]]

\* String.prototype.includes
includes(text, kw) ==
  \E i \in 0..(Len(text) - Len(kw)) : \A j \in 1..Len(kw) : text[i + j] = kw[j]

ShortVsDetailed == "These tags might conflict. We recommend choosing either short/brief OR detailed/comprehensive."
SimpleVsAdvanced == "These tags might conflict. We recommend choosing either simple/easy OR advanced/technical."
FormalVsCasual == "These tags might conflict. We recommend choosing either formal/professional OR casual/friendly."

Rule(keywords, conflictsWith, message) ==
  [keywords |-> keywords, conflictsWith |-> conflictsWith, message |-> message]

conflictRules ==
  << Rule({ <<"s", "h", "o", "r", "t">>, <<"b", "r", "i", "e", "f">>, <<"c", "o", "n", "c", "i", "s", "e">> },
          { <<"d", "e", "t", "a", "i", "l", "e", "d">>, <<"c", "o", "m", "p", "r", "e", "h", "e", "n", "s", "i", "v", "e">>, <<"i", "n", "-", "d", "e", "p", "t", "h">>, <<"t", "h", "o", "r", "o", "u", "g", "h">> },
          ShortVsDetailed),
     Rule({ <<"s", "i", "m", "p", "l", "e">>, <<"b", "a", "s", "i", "c">>, <<"e", "a", "s", "y">> },
          { <<"a", "d", "v", "a", "n", "c", "e", "d">>, <<"c", "o", "m", "p", "l", "e", "x">>, <<"t", "e", "c", "h", "n", "i", "c", "a", "l">> },
          SimpleVsAdvanced),
     Rule({ <<"f", "o", "r", "m", "a", "l">>, <<"p", "r", "o", "f", "e", "s", "s", "i", "o", "n", "a", "l">> },
          { <<"c", "a", "s", "u", "a", "l">>, <<"f", "r", "i", "e", "n", "d", "l", "y">>, <<"c", "o", "n", "v", "e", "r", "s", "a", "t", "i", "o", "n", "a", "l">> },
          FormalVsCasual) >>

\* keep the elements of a sequence that satisfy a test given as a set of indices
RECURSIVE Keep(_, _, _)
Keep(s, keep, i) ==
  IF i > Len(s) THEN <<>>
  ELSE (IF i \in keep THEN <<s[i]>> ELSE <<>>) \o Keep(s, keep, i + 1)

\* the tag texts the model's answers and lists carry
TagTexts ==
  {fallbackTags[i].text : i \in 1..Len(fallbackTags)}
  \cup {safeDefaults(requiredCategories[i]) : i \in 1..Len(requiredCategories)}
  \cup {Coach, BeBrief, BeComprehensive, Examiner, QuizMe}

\* text.toLowerCase().includes(kw), tabulated: the keywords each text includes
includedKeywords ==
  [text \in TagTexts |->
     {kw \in UNION {conflictRules[r].keywords \cup conflictRules[r].conflictsWith :
                      r \in 1..Len(conflictRules)} :
        includes(toLowerCase(Chars(text)), kw)}]

\* detectConflicts: the messages of the rules the selection triggers, in rule order
detectConflicts(selectedTags) ==
  LET hasKeyword(rule) ==
        \E i \in 1..Len(selectedTags) :
           includedKeywords[selectedTags[i].text] \cap rule.keywords # {}
      hasConflict(rule) ==
        \E i \in 1..Len(selectedTags) :
           includedKeywords[selectedTags[i].text] \cap rule.conflictsWith # {}
      messages == [r \in 1..Len(conflictRules) |-> conflictRules[r].message]
  IN  Keep(messages,
           {r \in 1..Len(conflictRules) :
              hasKeyword(conflictRules[r]) /\ hasConflict(conflictRules[r])}, 1)

----------------------------------------------------------------------------
(* SmartTagService: operations *)

\* an HTTP request of loadSmartTags that has not been answered
Load(topic, intent, latest) == [topic |-> topic, intent |-> intent, latest |-> latest]

\* history: what wrote the available tags ("latest": the answer to the newest
\* request at the time; "stale": the answer to an older one; "offline") and
\* the topic and intent it was for
Source(by, topic, intent) == [by |-> by, topic |-> topic, intent |-> intent]
NoSource == Source("none", "", Null)

RemoveAt(s, k) == [i \in 1..(Len(s) - 1) |-> IF i < k THEN s[i] ELSE s[i + 1]]

\* variant: the offline state is not consulted
loadSmartTagsOnline(topic, intent, err) ==
  IF topic = "" \/ length(topic) < 4 \/ intent = Null
    THEN /\ _error' = err
         /\ UNCHANGED <<_availableTags, _isLoading, inflight, tagsFrom>>
  ELSE /\ _isLoading' = TRUE
       /\ _error' = Null
       /\ inflight' = Append([k \in 1..Len(inflight) |-> [inflight[k] EXCEPT !.latest = FALSE]],
                             Load(topic, intent, TRUE))
       /\ UNCHANGED <<_availableTags, tagsFrom>>

\* loadSmartTags up to its first await, entered with the topic and intent
\* signals as given and the error signal holding err
loadSmartTags(topic, intent, err) ==
  IF topic = "" \/ length(topic) < 4 \/ intent = Null
    THEN /\ _error' = err
         /\ UNCHANGED <<_availableTags, _isLoading, inflight, tagsFrom>>
  ELSE IF _isOffline
    THEN /\ _error' = NoInternet
         /\ _availableTags' = fallbackTags
         /\ tagsFrom' = Source("offline", topic, intent)
         /\ UNCHANGED <<_isLoading, inflight>>
  ELSE /\ _isLoading' = TRUE
       /\ _error' = Null
       /\ inflight' = Append([k \in 1..Len(inflight) |-> [inflight[k] EXCEPT !.latest = FALSE]],
                             Load(topic, intent, TRUE))
       /\ UNCHANGED <<_availableTags, tagsFrom>>

\* variant: the load goes through the debounce timer
setIntentDebounced(intent) ==
  /\ _intent' = intent
  /\ _error' = Null
  /\ IF length(_topic) >= 4
       THEN /\ timers' = timers \cup {clock + DebounceDelay}
            /\ debounceTimer' = clock + DebounceDelay
       ELSE UNCHANGED <<timers, debounceTimer>>
  /\ UNCHANGED <<_topic, _availableTags, _isLoading, inflight, tagsFrom, _selectedTags,
                 _finalPrompt, _isDefaultPrompt, _conflictWarnings, _isOffline,
                 _recentPrompts, clock, promptCount, lastPreset,
                 lastTopicAt, prevCall>>
  /\ sinceClear' = "none"
  /\ UNCHANGED <<serverVars, componentVars>>

setIntent(intent) ==
  /\ _intent' = intent
  /\ IF length(_topic) >= 4
       THEN loadSmartTags(_topic, intent, Null)
       ELSE /\ _error' = Null
            /\ UNCHANGED <<_availableTags, _isLoading, inflight, tagsFrom>>
  /\ UNCHANGED <<_topic, _selectedTags, _finalPrompt, _isDefaultPrompt, _conflictWarnings,
                 _isOffline, _recentPrompts, debounceTimer, timers, clock, promptCount,
                 lastPreset, lastTopicAt, prevCall>>
  /\ sinceClear' = "none"
  /\ UNCHANGED <<serverVars, componentVars>>

\* clearTimeout(handle)
clearTimeout(pending, handle) == pending \ {handle}

\* variant: the pending timer is left running
setTopicKeepingTimer(topic) ==
  /\ _topic' = topic
  /\ _error' = Null
  /\ lastTopicAt' = clock
  /\ IF length(topic) >= 4 /\ _intent # Null
       THEN /\ timers' = timers \cup {clock + DebounceDelay}
            /\ debounceTimer' = clock + DebounceDelay
            /\ UNCHANGED <<_availableTags, _selectedTags, tagsFrom>>
       ELSE /\ _availableTags' = <<>>
            /\ _selectedTags' = <<>>
            /\ tagsFrom' = NoSource
            /\ UNCHANGED <<timers, debounceTimer>>
  /\ UNCHANGED <<_intent, _finalPrompt, _isLoading, _isDefaultPrompt, _conflictWarnings,
                 _isOffline, _recentPrompts, inflight, clock, promptCount, lastPreset,
                 prevCall>>
  /\ sinceClear' = IF length(topic) < 4 THEN "setTopic" ELSE "none"
  /\ UNCHANGED <<serverVars, componentVars>>

setTopic(topic) ==
  /\ _topic' = topic
  /\ _error' = Null
  /\ lastTopicAt' = clock
  /\ LET pending == IF debounceTimer # 0 THEN clearTimeout(timers, debounceTimer) ELSE timers
     IN  IF length(topic) >= 4 /\ _intent # Null
           THEN /\ timers' = pending \cup {clock + DebounceDelay}
                /\ debounceTimer' = clock + DebounceDelay
                /\ UNCHANGED <<_availableTags, _selectedTags, tagsFrom>>
           ELSE /\ timers' = pending
                /\ _availableTags' = <<>>
                /\ _selectedTags' = <<>>
                /\ tagsFrom' = NoSource
                /\ UNCHANGED debounceTimer
  /\ UNCHANGED <<_intent, _finalPrompt, _isLoading, _isDefaultPrompt, _conflictWarnings,
                 _isOffline, _recentPrompts, inflight, clock, promptCount, lastPreset,
                 prevCall>>
  /\ sinceClear' = IF length(topic) < 4 THEN "setTopic" ELSE "none"
  /\ UNCHANGED <<serverVars, componentVars>>

\* the debounce timer fires: the callback of setTimeout runs loadSmartTags
DebounceFires ==
  /\ \E due \in timers :
       /\ due <= clock
       /\ timers' = timers \ {due}
  /\ loadSmartTags(_topic, _intent, _error)
  /\ UNCHANGED <<_intent, _topic, _selectedTags, _finalPrompt, _isDefaultPrompt,
                 _conflictWarnings, _isOffline, _recentPrompts, debounceTimer, clock,
                 promptCount, lastPreset, lastTopicAt, prevCall>>
  /\ UNCHANGED <<serverVars, componentVars, sinceClear>>

\* loadSmartTags called by the component (refreshCategory)
RetryLoad ==
  /\ loadSmartTags(_topic, _intent, _error)
  /\ UNCHANGED <<_intent, _topic, _selectedTags, _finalPrompt, _isDefaultPrompt,
                 _conflictWarnings, _isOffline, _recentPrompts, debounceTimer, timers,
                 clock, promptCount, lastPreset, lastTopicAt, prevCall>>
  /\ UNCHANGED <<serverVars, componentVars, sinceClear>>

\* 100 ms pass; a timer fires when it is due
ClockTick ==
  /\ clock < MaxClock
  /\ \A due \in timers : due > clock
  /\ clock' = clock + 1
  /\ UNCHANGED <<_intent, _topic, _availableTags, _selectedTags, _finalPrompt, _isLoading,
                 _error, _isDefaultPrompt, _conflictWarnings, _isOffline, _recentPrompts,
                 debounceTimer, timers, inflight, promptCount, lastPreset, tagsFrom,
                 lastTopicAt, prevCall>>
  /\ UNCHANGED <<serverVars, componentVars, sinceClear>>

\* loadSmartTags after its await: the k-th pending request is answered
LoadSettles(k, response) ==
  /\ k \in 1..Len(inflight)
  /\ inflight' = RemoveAt(inflight, k)
  /\ tagsFrom' = Source(IF inflight[k].latest THEN "latest" ELSE "stale",
                         inflight[k].topic, inflight[k].intent)
  /\ IF response.ok /\ response.success /\ response.hasTags
       THEN /\ _availableTags' = TagItems(response)
            /\ _selectedTags' = <<>>
            /\ _error' = IF response.fallback THEN UsingFallback ELSE _error
     ELSE IF response.ok /\ ~response.success
       THEN /\ _error' = IF response.hasMessage THEN ServerMessage ELSE FailedToGenerate
            /\ _availableTags' = fallbackTags
            /\ UNCHANGED _selectedTags
     ELSE /\ _availableTags' = fallbackTags
          /\ _error' = ApiError
          /\ UNCHANGED _selectedTags
  /\ _isLoading' = FALSE
  /\ UNCHANGED <<_intent, _topic, _finalPrompt, _isDefaultPrompt, _conflictWarnings,
                 _isOffline, _recentPrompts, debounceTimer, timers, clock, promptCount,
                 lastPreset, lastTopicAt, prevCall>>
  /\ UNCHANGED <<serverVars, componentVars, sinceClear>>

\* availableTags.map(t => t.id === tagId ? {...t, selected} : t)
Mark(tags, tagId, selected) ==
  [i \in 1..Len(tags) |-> IF tags[i].id = tagId THEN [tags[i] EXCEPT !.selected = selected]
                          ELSE tags[i]]

\* variant: no limit on the selection
toggleTagSelectionUnlimited(tagId) ==
  /\ IF ~\E i \in 1..Len(_availableTags) : _availableTags[i].id = tagId
       THEN UNCHANGED <<_availableTags, _selectedTags, _error, _conflictWarnings>>
     ELSE IF \E i \in 1..Len(_selectedTags) : _selectedTags[i].id = tagId
       THEN LET updated == Keep(_selectedTags,
                                {i \in 1..Len(_selectedTags) : _selectedTags[i].id # tagId}, 1)
            IN  /\ _availableTags' = Mark(_availableTags, tagId, FALSE)
                /\ _selectedTags' = updated
                /\ _conflictWarnings' = detectConflicts(updated)
                /\ UNCHANGED _error
     ELSE LET tag == _availableTags[CHOOSE i \in 1..Len(_availableTags) :
                                      /\ _availableTags[i].id = tagId
                                      /\ \A j \in 1..(i - 1) : _availableTags[j].id # tagId]
              updated == Append(_selectedTags, [tag EXCEPT !.selected = TRUE])
          IN  /\ _availableTags' = Mark(_availableTags, tagId, TRUE)
              /\ _selectedTags' = updated
              /\ _error' = Null
              /\ _conflictWarnings' = detectConflicts(updated)
  /\ UNCHANGED <<_intent, _topic, _finalPrompt, _isLoading, _isDefaultPrompt, _isOffline,
                 _recentPrompts, debounceTimer, timers, inflight, clock, promptCount,
                 lastPreset, tagsFrom, lastTopicAt, prevCall>>
  /\ UNCHANGED <<serverVars, componentVars, sinceClear>>

toggleTagSelection(tagId) ==
  /\ IF ~\E i \in 1..Len(_availableTags) : _availableTags[i].id = tagId
       THEN UNCHANGED <<_availableTags, _selectedTags, _error, _conflictWarnings>>
     ELSE IF \E i \in 1..Len(_selectedTags) : _selectedTags[i].id = tagId
       THEN LET updated == Keep(_selectedTags,
                                {i \in 1..Len(_selectedTags) : _selectedTags[i].id # tagId}, 1)
            IN  /\ _availableTags' = Mark(_availableTags, tagId, FALSE)
                /\ _selectedTags' = updated
                /\ _conflictWarnings' = detectConflicts(updated)
                /\ UNCHANGED _error
     ELSE IF Len(_selectedTags) >= 5
       THEN /\ _error' = MaximumTags
            /\ UNCHANGED <<_availableTags, _selectedTags, _conflictWarnings>>
     ELSE LET tag == _availableTags[CHOOSE i \in 1..Len(_availableTags) :
                                      /\ _availableTags[i].id = tagId
                                      /\ \A j \in 1..(i - 1) : _availableTags[j].id # tagId]
              updated == Append(_selectedTags, [tag EXCEPT !.selected = TRUE])
          IN  /\ _availableTags' = Mark(_availableTags, tagId, TRUE)
              /\ _selectedTags' = updated
              /\ _error' = Null
              /\ _conflictWarnings' = detectConflicts(updated)
  /\ UNCHANGED <<_intent, _topic, _finalPrompt, _isLoading, _isDefaultPrompt, _isOffline,
                 _recentPrompts, debounceTimer, timers, inflight, clock, promptCount,
                 lastPreset, tagsFrom, lastTopicAt, prevCall>>
  /\ UNCHANGED <<serverVars, componentVars, sinceClear>>

\* A text built by a template literal or by join is the sequence of the
\* pieces it concatenates.

\* the decimal digit of a small number
Digit(n) == <<"0", "1", "2", "3", "4", "5", "6", "7", "8", "9">>[n + 1]

\* requirements.join('\n') of `${index + 1}. ${tag.text}`
RECURSIVE requirements(_, _)
requirements(selectedTags, index) ==
  IF index > Len(selectedTags) THEN <<>>
  ELSE (IF index > 1 THEN <<"\n">> ELSE <<>>)
       \o <<Digit(index), ". ", selectedTags[index].text>>
       \o requirements(selectedTags, index + 1)

defaultPrompt(topic) ==
  <<"Explain \"", topic,
    "\" like a class teacher, using simple words with short key points that are easy to understand.">>

\* variant: the role line is taken from the first selected tag
roleInstructionOfFirstTag(selectedTags) ==
  <<"Act as: ", selectedTags[1].text>>

roleInstruction(selectedTags) ==
  IF \E i \in 1..Len(selectedTags) : selectedTags[i].category = "role"
    THEN <<"Act as: ",
           selectedTags[CHOOSE i \in 1..Len(selectedTags) :
                          /\ selectedTags[i].category = "role"
                          /\ \A j \in 1..(i - 1) : selectedTags[j].category # "role"].text>>
    ELSE <<"Act as a friendly school teacher.">>

\* variant: the stored prompt count is appended to the text
finalPromptTextWithCount(topic, selectedTags) ==
  roleInstruction(selectedTags)
  \o <<"\n\nTopic: \"", topic, "\"\n\nRequirements:\n">>
  \o requirements(selectedTags, 1)
  \o <<"\n\nPlease provide a clear, student-friendly explanation.">> \o <<Digit(promptCount)>>

\* the template literal of the final prompt
finalPromptText(topic, selectedTags) ==
  roleInstruction(selectedTags)
  \o <<"\n\nTopic: \"", topic, "\"\n\nRequirements:\n">>
  \o requirements(selectedTags, 1)
  \o <<"\n\nPlease provide a clear, student-friendly explanation.">>

Recent(topic, prompt, timestamp) == [topic |-> topic, prompt |-> prompt, timestamp |-> timestamp]

\* [newRecent, ...recents].slice(0, 3)
saveRecentPrompt(recents, topic, prompt, timestamp) ==
  SubSeq(<<Recent(topic, prompt, timestamp)>> \o recents, 1, Min(3, Len(recents) + 1))

\* the value saveAsPreset stores under betterask_last_preset
Preset(intent, selectedTags) ==
  [intent |-> intent,
   tagIds |-> [i \in 1..Len(selectedTags) |-> selectedTags[i].id],
   tags |-> [i \in 1..Len(selectedTags) |->
               [text |-> selectedTags[i].text, category |-> selectedTags[i].category]]]

NoPreset == [intent |-> Null, tagIds |-> <<>>, tags |-> <<>>]

\* what the last call of generatePrompt that wrote a prompt was given and wrote
Call(made, topic, intent, selectedTags, prompt) ==
  [made |-> made, topic |-> topic, intent |-> intent, selectedTags |-> selectedTags,
   prompt |-> prompt]

NoCall == Call(FALSE, "", Null, <<>>, <<>>)

\* variant: the zero-tag prompt is stored among the recent prompts
generatePromptSavingDefault ==
  /\ IF _topic = "" \/ _intent = Null
       THEN /\ _error' = ProvideTopicAndIntent
            /\ UNCHANGED <<_finalPrompt, _isDefaultPrompt, _recentPrompts, promptCount,
                           lastPreset, prevCall>>
     ELSE IF Len(_selectedTags) = 0
       THEN /\ _finalPrompt' = defaultPrompt(_topic)
            /\ _isDefaultPrompt' = TRUE
            /\ _recentPrompts' = saveRecentPrompt(_recentPrompts, _topic, defaultPrompt(_topic), clock)
            /\ prevCall' = Call(TRUE, _topic, _intent, _selectedTags, defaultPrompt(_topic))
            /\ UNCHANGED <<_error, promptCount, lastPreset>>
     ELSE /\ _isDefaultPrompt' = FALSE
          /\ _finalPrompt' = finalPromptText(_topic, _selectedTags)
          /\ _recentPrompts' = saveRecentPrompt(_recentPrompts, _topic,
                                                finalPromptText(_topic, _selectedTags), clock)
          /\ promptCount' = promptCount + 1
          /\ lastPreset' = IF promptCount >= 2 THEN Preset(_intent, _selectedTags) ELSE lastPreset
          /\ prevCall' = Call(TRUE, _topic, _intent, _selectedTags,
                              finalPromptText(_topic, _selectedTags))
          /\ UNCHANGED _error
  /\ UNCHANGED <<_intent, _topic, _availableTags, _selectedTags, _isLoading,
                 _conflictWarnings, _isOffline, debounceTimer, timers, inflight, clock,
                 tagsFrom, lastTopicAt>>
  /\ UNCHANGED <<serverVars, componentVars, sinceClear>>

generatePrompt ==
  /\ IF _topic = "" \/ _intent = Null
       THEN /\ _error' = ProvideTopicAndIntent
            /\ UNCHANGED <<_finalPrompt, _isDefaultPrompt, _recentPrompts, promptCount,
                           lastPreset, prevCall>>
     ELSE IF Len(_selectedTags) = 0
       THEN /\ _finalPrompt' = defaultPrompt(_topic)
            /\ _isDefaultPrompt' = TRUE
            /\ prevCall' = Call(TRUE, _topic, _intent, _selectedTags, defaultPrompt(_topic))
            /\ UNCHANGED <<_error, _recentPrompts, promptCount, lastPreset>>
     ELSE /\ _isDefaultPrompt' = FALSE
          /\ _finalPrompt' = finalPromptText(_topic, _selectedTags)
          /\ _recentPrompts' = saveRecentPrompt(_recentPrompts, _topic,
                                                finalPromptText(_topic, _selectedTags), clock)
          /\ promptCount' = promptCount + 1
          /\ lastPreset' = IF promptCount >= 2 THEN Preset(_intent, _selectedTags) ELSE lastPreset
          /\ prevCall' = Call(TRUE, _topic, _intent, _selectedTags,
                              finalPromptText(_topic, _selectedTags))
          /\ UNCHANGED _error
  /\ UNCHANGED <<_intent, _topic, _availableTags, _selectedTags, _isLoading,
                 _conflictWarnings, _isOffline, debounceTimer, timers, inflight, clock,
                 tagsFrom, lastTopicAt>>
  /\ UNCHANGED <<serverVars, componentVars, sinceClear>>

reset ==
  /\ _intent' = Null
  /\ _topic' = ""
  /\ _availableTags' = <<>>
  /\ _selectedTags' = <<>>
  /\ _finalPrompt' = <<>>
  /\ _isLoading' = FALSE
  /\ _error' = Null
  /\ _isDefaultPrompt' = FALSE
  /\ _conflictWarnings' = <<>>
  /\ timers' = IF debounceTimer # 0 THEN clearTimeout(timers, debounceTimer) ELSE timers
  /\ tagsFrom' = NoSource
  /\ UNCHANGED <<_isOffline, _recentPrompts, debounceTimer, inflight, clock, promptCount,
                 lastPreset, lastTopicAt, prevCall>>
  /\ sinceClear' = "reset"
  /\ UNCHANGED <<serverVars, componentVars>>

useRecentPrompt(recent) ==
  /\ _topic' = recent.topic
  /\ _finalPrompt' = recent.prompt
  /\ UNCHANGED <<_intent, _availableTags, _selectedTags, _isLoading, _error,
                 _isDefaultPrompt, _conflictWarnings, _isOffline, _recentPrompts,
                 debounceTimer, timers, inflight, clock, promptCount, lastPreset, tagsFrom,
                 lastTopicAt, prevCall>>
  /\ UNCHANGED <<serverVars, componentVars, sinceClear>>

\* window 'offline' and 'online' events
offline ==
  /\ ~_isOffline
  /\ _isOffline' = TRUE
  /\ UNCHANGED <<_intent, _topic, _availableTags, _selectedTags, _finalPrompt, _isLoading,
                 _error, _isDefaultPrompt, _conflictWarnings, _recentPrompts, debounceTimer,
                 timers, inflight, clock, promptCount, lastPreset, tagsFrom, lastTopicAt,
                 prevCall>>
  /\ UNCHANGED <<serverVars, componentVars, sinceClear>>

online ==
  /\ _isOffline
  /\ _isOffline' = FALSE
  /\ UNCHANGED <<_intent, _topic, _availableTags, _selectedTags, _finalPrompt, _isLoading,
                 _error, _isDefaultPrompt, _conflictWarnings, _recentPrompts, debounceTimer,
                 timers, inflight, clock, promptCount, lastPreset, tagsFrom, lastTopicAt,
                 prevCall>>
  /\ UNCHANGED <<serverVars, componentVars, sinceClear>>

----------------------------------------------------------------------------
(* SmartTagService: what the user and the network do in each specification *)

\* the user clicks a tag shown that bears one of the given texts
ToggleTexts(texts) ==
  \E i \in 1..Len(_availableTags) :
     _availableTags[i].text \in texts /\ toggleTagSelection(_availableTags[i].id)

\* the user clicks one of the first n tags shown
ToggleAmong(n) ==
  \E i \in 1..Min(n, Len(_availableTags)) : toggleTagSelection(_availableTags[i].id)

\* a pending request is answered with one of the given answers
SettlesWith(responses) ==
  \E k \in 1..Len(inflight) : \E response \in responses : LoadSettles(k, response)

\* selection: tags are loaded, clicked, replaced and cleared
SelectTopic == \E topic \in {ShortTopic, Atom} : setTopic(topic)
SelectIntent == Len(inflight) < MaxSelectInFlight /\ setIntent("learn")
SelectSettles == SettlesWith({CategorizedResponse})
SelectToggle == ToggleAmong(MaxClick)

\* prompt assembly: tags are loaded and clicked, prompts generated and reused
PromptTopic == \E topic \in {Atom, Cell} : setTopic(topic)
PromptIntent == inflight = <<>> /\ setIntent("learn")
PromptSettles == SettlesWith({CategorizedResponse})
PromptToggle == ToggleTexts({BeBrief, Coach})
PromptGenerate == promptCount < MaxPromptCount /\ generatePrompt
PromptReuse == \E i \in 1..Len(_recentPrompts) : useRecentPrompt(_recentPrompts[i])

\* loads: requests overlap and are answered in any order
LoadsTopic == \E topic \in {ShortTopic, Atom, Cell} : setTopic(topic)
LoadsIntent == Len(inflight) < MaxInFlight /\ \E intent \in Intents : setIntent(intent)
LoadsRetry == Len(inflight) < MaxInFlight /\ RetryLoad
LoadsSettles == SettlesWith(AllResponses)
LoadsToggle == ToggleAmong(MaxLoadsClick)

\* debounce: the user types and picks intents while the clock runs
TypeTopic == \E topic \in {NoTopic, ShortTopic, Atom, Cell} : setTopic(topic)
PickIntent == Len(inflight) < MaxTypingInFlight /\ \E intent \in Intents : setIntent(intent)
TimerFires == Len(inflight) < MaxTypingInFlight /\ DebounceFires
TypingSettles == SettlesWith({FlatArrayResponse})

\* going offline and online while requests are started and answered
OfflineTopic == \E topic \in {ShortTopic, Atom} : setTopic(topic)
OfflineIntent == Len(inflight) < MaxInFlight /\ \E intent \in Intents : setIntent(intent)
OfflineRetry == Len(inflight) < MaxInFlight /\ RetryLoad
OfflineSettles == SettlesWith({CategorizedResponse, FailedRequest})

----------------------------------------------------------------------------
(* PromptBuilderComponent                                                  *)
(*   src/components/prompt-builder/prompt-builder.component.ts, lines      *)
(*   1-372: tags are strings ("strings")                                   *)
(*   unnamed/part_003, lines 93-436: tags are SmartTag objects ("objects") *)
(* The persona and the intent stay at the constructor's values.            *)

StepGuide == "Step By Step Guide"
Analogy == "Use Simple Analogy"
FiveExamples == "Give Five Real World Examples"

\* SMART_TAGS_DATA['Teacher']['Generate Questions']
SMART_TAGS_DATA ==
  << "Multiple Choice Questions", "Critical Thinking Tasks", "Real World Application",
     "Blooms Taxonomy Levels", "Include Answer Key", "Mixed Difficulty Levels",
     "Full Topic Coverage", "Set Time Limit" >>

SmartTag(text, category) == [text |-> text, category |-> category]

\* what generateSmartTags resolves to
AiResponse(success, fallback, tags) ==
  [success |-> success, fallback |-> fallback, tags |-> tags]

\* a generateSmartTags call that has not resolved
Fetch(stage, resetSelection, selectedTags) ==
  [stage |-> stage, resetSelection |-> resetSelection, selectedTags |-> selectedTags]

\* the answers the tag endpoint can give the builder
StringTagPool == {StepGuide, Analogy, FiveExamples}
ObjectTagPool ==
  { SmartTag(StepGuide, "Task Instruction"), SmartTag(StepGuide, "Reasoning Help"),
    SmartTag(Analogy, "Add Context") }
BuilderAnswers ==
  IF builderVariant = "strings"
    THEN {AiResponse(TRUE, FALSE, q) : q \in SeqsUpTo(StringTagPool, MaxAnswerLen)}
         \cup {AiResponse(FALSE, FALSE, <<>>)}
    ELSE {AiResponse(TRUE, FALSE, q) : q \in SeqsUpTo(ObjectTagPool, MaxAnswerLen)}
         \cup {AiResponse(TRUE, TRUE, <<>>), AiResponse(FALSE, FALSE, <<>>)}

\* String.prototype.split(' ')
RECURSIVE splitSpace(_, _)
splitSpace(s, cur) ==
  IF s = <<>> THEN <<cur>>
  ELSE IF Head(s) = " " THEN <<cur>> \o splitSpace(Tail(s), <<>>)
       ELSE splitSpace(Tail(s), Append(cur, Head(s)))

\* aiResponse.tags.filter(t => t.split(' ').length <= 4)
shortTags(tags) ==
  Keep(tags, {i \in 1..Len(tags) : Len(splitSpace(Chars(tags[i]), <<>>)) <= 4}, 1)

\* the text of a tag of availableSmartTags
TagText(tag) == IF builderVariant = "strings" THEN tag ELSE tag.text

\* loadSmartTags up to its await
builderLoadSmartTags(resetSelection) ==
  IF length(builderTopic) < 4
    THEN UNCHANGED <<isLoadingTags, tagFetches>>
  ELSE /\ isLoadingTags' = TRUE
       /\ tagFetches' = Append(tagFetches, Fetch(1, resetSelection, <<>>))

\* loadSmartTags after its await
loadSmartTagsContinues(fetch, aiResponse) ==
  /\ isLoadingTags' = FALSE
  /\ IF builderVariant = "strings"
       THEN /\ availableSmartTags' =
                 IF aiResponse.success /\ Len(aiResponse.tags) > 0
                   THEN shortTags(aiResponse.tags)
                   ELSE SMART_TAGS_DATA
            /\ IF fetch.resetSelection
                 THEN /\ selectedSmartTags' = <<>>
                      /\ revealStage' = 1
               ELSE /\ revealStage' = IF Len(selectedSmartTags) > 0 THEN 2 ELSE 1
                    /\ UNCHANGED selectedSmartTags
     ELSE IF aiResponse.success /\ ~aiResponse.fallback /\ Len(aiResponse.tags) > 0
       THEN /\ availableSmartTags' = aiResponse.tags
            /\ IF fetch.resetSelection
                 THEN /\ selectedSmartTags' = <<>>
                      /\ revealStage' = 1
               ELSE /\ revealStage' = IF Len(selectedSmartTags) > 0 THEN 2 ELSE 1
                    /\ UNCHANGED selectedSmartTags
     ELSE /\ availableSmartTags' = <<>>
          /\ revealStage' = 0
          /\ UNCHANGED selectedSmartTags

\* the list getNext2Tags installs when the answer carries tags
combined(current, tags) ==
  IF builderVariant = "strings"
    THEN Slice(Dedup(current \o shortTags(tags), {}), 8)
  ELSE LET newTags ==
             Keep(tags, {i \in 1..Len(tags) :
                           ~\E c \in 1..Len(current) : current[c].text = tags[i].text}, 1)
       IN  Slice(current \o newTags, 8)

\* whether getNext2Tags merges the answer
Merges(aiResponse) ==
  /\ aiResponse.success
  /\ builderVariant = "objects" => ~aiResponse.fallback
  /\ Len(aiResponse.tags) > 0

\* getNext2Tags after its await
getNext2TagsContinues(aiResponse) ==
  /\ availableSmartTags' =
       IF Merges(aiResponse) THEN combined(availableSmartTags, aiResponse.tags)
       ELSE availableSmartTags
  /\ isLoadingTags' = FALSE
  /\ UNCHANGED <<selectedSmartTags, revealStage>>

\* toggleSmartTag, with the part of getNext2Tags that runs before its await
toggleSmartTag(tag) ==
  LET current == selectedSmartTags
      text == TagText(tag)
  IN  /\ IF \E i \in 1..Len(current) : current[i] = text
           THEN /\ selectedSmartTags' =
                     Keep(current, {i \in 1..Len(current) : current[i] # text}, 1)
                /\ UNCHANGED <<revealStage, isLoadingTags, tagFetches>>
         ELSE IF Len(current) >= 8
           THEN UNCHANGED <<selectedSmartTags, revealStage, isLoadingTags, tagFetches>>
         ELSE /\ selectedSmartTags' = Append(current, text)
              /\ IF revealStage = 1
                   THEN /\ isLoadingTags' = TRUE
                        /\ tagFetches' =
                             Append(tagFetches, Fetch(2, FALSE, Append(current, text)))
                        /\ revealStage' = 2
                 ELSE UNCHANGED <<revealStage, isLoadingTags, tagFetches>>
      /\ UNCHANGED <<builderVariant, builderTopic, topicPending, lastEmitted,
                     availableSmartTags>>
      /\ UNCHANGED <<serverVars, clientVars, analyzerVars>>

refreshSmartTags ==
  /\ builderLoadSmartTags(TRUE)
  /\ UNCHANGED <<builderVariant, builderTopic, topicPending, lastEmitted,
                 availableSmartTags, selectedSmartTags, revealStage>>
  /\ UNCHANGED <<serverVars, clientVars, analyzerVars>>

onTopicChange(value) ==
  /\ builderTopic' = value
  /\ topicPending' = TRUE
  /\ UNCHANGED <<builderVariant, lastEmitted, availableSmartTags, selectedSmartTags,
                 revealStage, isLoadingTags, tagFetches>>
  /\ UNCHANGED <<serverVars, clientVars, analyzerVars>>

\* 500 ms after the last keystroke: debounceTime, distinctUntilChanged and
\* the constructor's subscriber
TopicEmits ==
  /\ topicPending
  /\ topicPending' = FALSE
  /\ IF builderTopic = lastEmitted
       THEN UNCHANGED <<lastEmitted, revealStage, isLoadingTags, tagFetches>>
     ELSE /\ lastEmitted' = builderTopic
          /\ IF length(builderTopic) >= 4
               THEN /\ builderLoadSmartTags(TRUE)
                    /\ UNCHANGED revealStage
             ELSE /\ revealStage' = 0
                  /\ UNCHANGED <<isLoadingTags, tagFetches>>
  /\ UNCHANGED <<builderVariant, builderTopic, availableSmartTags, selectedSmartTags>>
  /\ UNCHANGED <<serverVars, clientVars, analyzerVars>>

\* clear(), confirmed
clear ==
  /\ selectedSmartTags' = <<>>
  /\ revealStage' = 0
  /\ UNCHANGED <<builderVariant, builderTopic, topicPending, lastEmitted,
                 availableSmartTags, isLoadingTags, tagFetches>>
  /\ UNCHANGED <<serverVars, clientVars, analyzerVars>>

\* the k-th pending generateSmartTags call resolves
FetchSettles(k, aiResponse) ==
  /\ k \in 1..Len(tagFetches)
  /\ tagFetches' = RemoveAt(tagFetches, k)
  /\ IF tagFetches[k].stage = 1
       THEN loadSmartTagsContinues(tagFetches[k], aiResponse)
     ELSE getNext2TagsContinues(aiResponse)
  /\ UNCHANGED <<builderVariant, builderTopic, topicPending, lastEmitted>>
  /\ UNCHANGED <<serverVars, clientVars, analyzerVars>>

\* the tags the template shows: none, the first three, all
Shown == IF revealStage = 0 THEN 0 ELSE IF revealStage = 1 THEN 3 ELSE 8

BuilderType == \E value \in {ShortTopic, Atom} : onTopicChange(value)
BuilderEmits == Len(tagFetches) < MaxBuilderInFlight /\ TopicEmits
BuilderRefresh == Len(tagFetches) < MaxBuilderInFlight /\ refreshSmartTags
BuilderToggle ==
  /\ Len(tagFetches) < MaxBuilderInFlight
  /\ \E i \in 1..Min(Min(Shown, MaxBuilderClick), Len(availableSmartTags)) :
       toggleSmartTag(availableSmartTags[i])
BuilderClear == clear
BuilderSettles ==
  \E k \in 1..Len(tagFetches) : \E aiResponse \in BuilderAnswers : FetchSettles(k, aiResponse)

----------------------------------------------------------------------------
(* PromptAnalyzerComponent                                                 *)
(*   src/components/prompt-analyzer/prompt-analyzer.component.ts           *)
(* The prompt is a sequence of characters.                                 *)

ExplainPhotosynthesis == <<"E", "x", "p", "l", "a", "i", "n", " ", "p", "h", "o", "t", "o", "s", "y", "n", "t", "h", "e", "s", "i", "s", ".">>
Blank == <<" ", " ">>
Hi == <<"H", "i">>
AvoidJargon == <<"A", "v", "o", "i", "d", " ", "u", "s", "i", "n", "g", " ", "t", "e", "c", "h", "n", "i", "c", "a", "l", " ", "j", "a", "r", "g", "o", "n", ".">>

\* a PromptAnalysis, and the null the analysis signal starts with
Analysis(score) == [score |-> score]
NoAnalysis == [null |-> TRUE]

\* how analyzeStudentPrompt settles: with a PromptAnalysis, with an Error
\* (its message may be empty), or with a value that is not an Error, as the
\* HTTP client's error response
Resolved(result) == [ok |-> TRUE, result |-> result, isError |-> FALSE, message |-> ""]
Rejected(isError, message) ==
  [ok |-> FALSE, result |-> NoAnalysis, isError |-> isError, message |-> message]
UnknownError == "An unknown error occurred."
ServiceUnavailable == "Service temporarily unavailable. Please try again later."
AnalyzerOutcomes ==
  { Resolved(Analysis(35)), Resolved(Analysis(80)),
    Rejected(TRUE, ServiceUnavailable), Rejected(TRUE, ""), Rejected(FALSE, "") }

\* the input box is edited
typePrompt(value) ==
  /\ promptInput' = value
  /\ UNCHANGED <<analysis, isLoading, error, analyzing, lastAnalyze>>
  /\ UNCHANGED <<serverVars, clientVars, builderVars>>

addSuggestionToPrompt(suggestion) ==
  /\ promptInput' = Trim(promptInput \o <<" ">> \o suggestion)
  /\ UNCHANGED <<analysis, isLoading, error, analyzing, lastAnalyze>>
  /\ UNCHANGED <<serverVars, clientVars, builderVars>>

\* variant: a call is not held back while another is pending
analyzePromptUnguarded ==
  LET prompt == Trim(promptInput)
  IN  /\ IF prompt = <<>>
           THEN /\ lastAnalyze' = "ignoredEmpty"
                /\ UNCHANGED <<analysis, isLoading, error, analyzing>>
         ELSE /\ isLoading' = TRUE
              /\ error' = Null
              /\ analysis' = NoAnalysis
              /\ analyzing' = Append(analyzing, prompt)
              /\ lastAnalyze' = "started"
      /\ UNCHANGED promptInput
      /\ UNCHANGED <<serverVars, clientVars, builderVars>>

\* analyzePrompt up to its await
analyzePrompt ==
  LET prompt == Trim(promptInput)
  IN  /\ IF prompt = <<>> \/ isLoading
           THEN /\ lastAnalyze' = IF prompt = <<>> THEN "ignoredEmpty" ELSE "ignoredLoading"
                /\ UNCHANGED <<analysis, isLoading, error, analyzing>>
         ELSE /\ isLoading' = TRUE
              /\ error' = Null
              /\ analysis' = NoAnalysis
              /\ analyzing' = Append(analyzing, prompt)
              /\ lastAnalyze' = "started"
      /\ UNCHANGED promptInput
      /\ UNCHANGED <<serverVars, clientVars, builderVars>>

\* analyzePrompt after its await: try, catch and finally
analyzePromptContinues(k, outcome) ==
  /\ k \in 1..Len(analyzing)
  /\ analyzing' = RemoveAt(analyzing, k)
  /\ IF outcome.ok
       THEN /\ analysis' = outcome.result
            /\ UNCHANGED error
     ELSE /\ error' = IF outcome.isError THEN outcome.message ELSE UnknownError
          /\ UNCHANGED analysis
  /\ isLoading' = FALSE
  /\ UNCHANGED <<promptInput, lastAnalyze>>
  /\ UNCHANGED <<serverVars, clientVars, builderVars>>

AnalyzerTypes == \E value \in {<<>>, Blank, Hi, ExplainPhotosynthesis} : typePrompt(value)
AnalyzerSuggests ==
  /\ Len(promptInput) + 1 + Len(AvoidJargon) <= MaxPromptLen
  /\ addSuggestionToPrompt(AvoidJargon)
AnalyzerAnalyzes == Len(analyzing) < MaxAnalyzing /\ analyzePrompt
AnalyzerSettles ==
  \E k \in 1..Len(analyzing) : \E outcome \in AnalyzerOutcomes :
    analyzePromptContinues(k, outcome)

----------------------------------------------------------------------------
(* Specifications *)

\* the components as constructed
InitComponents ==
  /\ builderTopic = ""
  /\ topicPending = FALSE
  /\ lastEmitted = Null
  /\ availableSmartTags = <<>>
  /\ selectedSmartTags = <<>>
  /\ revealStage = 0
  /\ isLoadingTags = FALSE
  /\ tagFetches = <<>>
  /\ promptInput = ExplainPhotosynthesis
  /\ analysis = NoAnalysis
  /\ isLoading = FALSE
  /\ error = Null
  /\ analyzing = <<>>
  /\ lastAnalyze = "none"

\* everything but the configuration, as constructed
InitState ==
  /\ now = 0
  /\ tagPc = "idle"
  /\ tagReq = NoRequest
  /\ tagOut = NoOutcome
  /\ tagRes = NoResponse
  /\ tagGatewayCalled = FALSE
  /\ tagDoneAt = 0
  /\ anPc = "idle"
  /\ anReq = Prompt("undefined", 0, <<>>)
  /\ anOut = NoAnalyzeOutcome
  /\ anRes = 0
  /\ anSent = 0
  /\ anGatewayCalled = FALSE
  /\ anBody = NoBody
  /\ _intent = Null
  /\ _topic = ""
  /\ _availableTags = <<>>
  /\ _selectedTags = <<>>
  /\ _finalPrompt = <<>>
  /\ _isLoading = FALSE
  /\ _error = Null
  /\ _isDefaultPrompt = FALSE
  /\ _conflictWarnings = <<>>
  /\ _isOffline = FALSE
  /\ _recentPrompts = <<>>
  /\ debounceTimer = 0
  /\ timers = {}
  /\ inflight = <<>>
  /\ clock = 0
  /\ promptCount = 0
  /\ lastPreset = NoPreset
  /\ tagsFrom = NoSource
  /\ lastTopicAt = 0
  /\ prevCall = NoCall
  /\ sinceClear = "none"
  /\ InitComponents

Init ==
  /\ genAI \in BOOLEAN
  /\ routeVariant \in {"grouped", "flat"}
  /\ builderVariant = "strings"
  /\ InitState

\* the service does not read the server's configuration: one is kept
InitClient == Init /\ genAI /\ routeVariant = "grouped"

NextTags == PostGenerate \/ GatewaySettles
NextTagsClock == Tick \/ PostGenerate \/ GatewaySettlesBrief
NextAnalyze == PostAnalyze \/ AnalyzeGatewaySettles

\* the tag-generation route
SpecTags == Init /\ [][NextTags]_vars
\* the tag-generation route with the clock running
SpecTagsClock == Init /\ [][NextTagsClock]_vars
\* the analysis route
SpecAnalyze == Init /\ [][NextAnalyze]_vars

NextSelect ==
  SelectTopic \/ SelectIntent \/ SelectSettles \/ SelectToggle \/ reset
NextPrompt ==
  PromptTopic \/ PromptIntent \/ PromptSettles \/ PromptToggle \/ PromptGenerate \/ PromptReuse
NextLoads ==
  LoadsTopic \/ LoadsIntent \/ LoadsRetry \/ LoadsSettles \/ LoadsToggle \/ offline \/ online
NextOffline ==
  OfflineTopic \/ OfflineIntent \/ OfflineRetry \/ OfflineSettles \/ offline \/ online
NextDebounce == ClockTick \/ TypeTopic \/ PickIntent \/ TimerFires \/ TypingSettles

\* SmartTagService: selecting tags
SpecSelect == InitClient /\ [][NextSelect]_vars
\* SmartTagService: assembling prompts
SpecPrompt == InitClient /\ [][NextPrompt]_vars
\* SmartTagService: overlapping loads
SpecLoads == InitClient /\ [][NextLoads]_vars
\* SmartTagService: typing with the clock running
SpecDebounce == InitClient /\ [][NextDebounce]_vars
\* SmartTagService: loading while the connection comes and goes
SpecOffline == InitClient /\ [][NextOffline]_vars

\* both snapshots of the prompt builder, from construction
InitBuilder ==
  /\ genAI = TRUE
  /\ routeVariant = "grouped"
  /\ builderVariant \in {"strings", "objects"}
  /\ InitState

NextBuilder ==
  BuilderType \/ BuilderEmits \/ BuilderRefresh \/ BuilderToggle \/ BuilderClear
  \/ BuilderSettles

SpecBuilder == InitBuilder /\ [][NextBuilder]_vars

NextAnalyzer == AnalyzerTypes \/ AnalyzerSuggests \/ AnalyzerAnalyzes \/ AnalyzerSettles

\* PromptAnalyzerComponent
SpecAnalyzer == InitClient /\ [][NextAnalyzer]_vars

Next == NextTags \/ NextTagsClock \/ NextAnalyze
        \/ NextSelect \/ NextPrompt \/ NextLoads \/ NextDebounce
        \/ NextOffline \/ NextBuilder \/ NextAnalyzer
Spec == Init /\ [][Next]_vars

----------------------------------------------------------------------------
(* Vocabulary of the properties, defined without the handlers' own helpers *)

MissingOrEmpty(x) == x = Undefined \/ x = Empty

FieldsGiven(req) ==
  ~MissingOrEmpty(req.topic) /\ ~MissingOrEmpty(req.intent) /\ ~MissingOrEmpty(req.persona)

\* number of maximal runs of non-whitespace characters
WordCount(s) ==
  Cardinality({i \in 1..Len(s) : ~IsSpace(s[i]) /\ (i = 1 \/ IsSpace(s[i - 1]))})

SeqToSet(q) == {q[i] : i \in 1..Len(q)}

\* every tag string of the response: the flat list and each category group
ReturnedTags ==
  SeqToSet(tagRes.tags)
  \cup UNION {SeqToSet(tagRes.groups[c]) : c \in DOMAIN tagRes.groups}

\* every candidate string of the model output the mounted route reads
Candidates ==
  IF tagOut.kind # "json" \/ tagOut.isNull THEN {}
  ELSE IF routeVariant = "grouped"
       THEN UNION {SeqToSet(tagOut.parsed[c].items) : c \in DOMAIN tagOut.parsed}
       ELSE SeqToSet(tagOut.flat.items)

NoCandidateSurvives ==
  \A t \in Candidates : t = NonString \/ WordCount(t) \notin {3, 4}

RequestedCount == IF tagReq.stage = 1 THEN 3 ELSE 5

LowerLetters == {"a", "b", "c", "d", "e", "f", "g", "h", "i", "j", "k", "l"}
ToLower(c) == IF c = "A" THEN "a" ELSE c
LowerCase(s) == [i \in 1..Len(s) |-> ToLower(s[i])]

EqualsIgnoringCase(s, t) == LowerCase(s) = LowerCase(t)

BearsPunctuation(s) == \E i \in 1..Len(s) : s[i] \in Punctuation

WhitespaceCollapsed(s) ==
  /\ s # <<>> => ~IsSpace(s[1]) /\ ~IsSpace(s[Len(s)])
  /\ \A i \in 1..Len(s) : IsSpace(s[i]) => s[i] = " " /\ (i > 1 => ~IsSpace(s[i - 1]))

TitleCased(s) ==
  \A i \in 1..Len(s) :
    (~IsSpace(s[i]) /\ (i = 1 \/ IsSpace(s[i - 1]))) => s[i] \notin LowerLetters

SameTagRequest(r1, r2) ==
  /\ r1.topic = r2.topic /\ r1.intent = r2.intent
  /\ r1.persona = r2.persona /\ r1.stage = r2.stage

InvalidPrompt(p) ==
  p.type # "string" \/ \A i \in 1..Len(p.chars) : IsSpace(p.chars[i])

----------------------------------------------------------------------------
(* Properties *)

\* C1: a request to /generate whose topic, intent and persona are given is
\* answered with status 200, and with fallback=true whenever the credential
\* is absent, the gateway call throws, its output is not valid JSON, or no
\* candidate has 3 or 4 words.
C1_ValidRequestNeverFails ==
  (tagPc = "done" /\ FieldsGiven(tagReq)) =>
     /\ tagRes.status = 200
     /\ ( \/ ~genAI
          \/ tagOut.kind \in {"rejects", "noText", "badJson"}
          \/ tagOut.kind = "json" /\ NoCandidateSurvives )
        => (tagRes.fallback /\ "fallback" \in tagRes.keys)

\* C1 witness: the model's output was not valid JSON and the answer is a
\* 200 fallback.
C1_Witness ==
  /\ tagPc = "done" /\ FieldsGiven(tagReq) /\ genAI
  /\ tagOut.kind = "badJson"
  /\ tagRes.status = 200 /\ tagRes.fallback

\* C2: a request to /generate with topic, intent or persona missing or empty
\* is answered 400 and never reaches the gateway, whether or not the
\* credential is configured.
C2_MissingFieldIs400 ==
  (tagPc # "idle" /\ ~FieldsGiven(tagReq)) =>
     (tagPc = "done" /\ tagRes.status = 400 /\ ~tagGatewayCalled)

\* C2 witness: an empty persona with no credential configured was answered 400.
C2_Witness ==
  /\ tagPc = "done" /\ ~genAI
  /\ tagReq.topic = "given" /\ tagReq.intent = "given" /\ tagReq.persona = Empty
  /\ tagRes.status = 400 /\ ~tagGatewayCalled

\* C3 (stated; the route does not satisfy it): every fallback response carries a tag list as long as the
\* requested count (3 for stage 1, else 5) and a message.
C3_FallbackCarriesStaticTags ==
  (tagPc = "done" /\ tagRes.fallback) =>
     (Len(tagRes.tags) = RequestedCount /\ "message" \in tagRes.keys)

\* C4: every tag string of a success response, in the flat list and in every
\* category group, has 3 or 4 whitespace-separated words.
C4_SuccessTagsHaveThreeOrFourWords ==
  (tagPc = "done" /\ tagRes.success) =>
     \A t \in ReturnedTags : WordCount(t) \in {3, 4}

\* C4 witness: a success response returned the 4-word candidate with stray
\* whitespace while a 2-word candidate of the same output was dropped.
C4_Witness ==
  /\ tagPc = "done" /\ tagRes.success
  /\ Messy4 \in ReturnedTags
  /\ TooShort \in Candidates /\ TooShort \notin ReturnedTags

\* C5 (stated; the route does not satisfy it): no returned tag string bears punctuation; returned tags
\* are whitespace-collapsed and title-cased.
C5_ReturnedTagsNormalized ==
  tagPc = "done" =>
     \A t \in ReturnedTags :
        ~BearsPunctuation(t) /\ WhitespaceCollapsed(t) /\ TitleCased(t)

\* C6 (stated; the route does not satisfy it): no returned tag string equals, ignoring case, an entry of
\* the caller's selectedTags or visibleTags.
C6_NoExistingTagReturned ==
  tagPc = "done" =>
     \A t \in ReturnedTags :
        \A e \in SeqToSet(tagReq.selectedTags) \cup SeqToSet(tagReq.visibleTags) :
           ~EqualsIgnoringCase(t, e)

\* C7 (stated; the route does not satisfy it): a request with the topic, intent, persona and stage of the
\* last successful generation does not invoke the gateway when it arrives less
\* than 10 minutes after that generation, and invokes it when it arrives later.
C7_RepeatWithinTenMinutesSkipsGateway ==
  [][ ( /\ tagPc = "done" /\ tagRes.success
        /\ now' = now
        /\ SameTagRequest(tagReq', tagReq) )
      => IF now - tagDoneAt < 10 THEN ~tagGatewayCalled' ELSE tagGatewayCalled' ]_vars

\* C8 (stated; the route does not satisfy it): a success response holds at most 3 tags for stage 1 and at
\* most 5 for any other stage.
C8_AtMostRequestedCount ==
  (tagPc = "done" /\ tagRes.success) => Len(tagRes.tags) <= RequestedCount

\* C9: a request to /analyze whose studentPrompt is missing, not a string,
\* empty or whitespace-only is answered 400 without a gateway call, also when
\* the credential is missing.
C9_InvalidPromptIs400 ==
  (anPc # "idle" /\ InvalidPrompt(anReq)) =>
     (anPc = "done" /\ anRes = 400 /\ anSent = 1 /\ ~anGatewayCalled)

\* C9 witness: a whitespace-only prompt with no credential configured was
\* answered 400.
C9_Witness ==
  /\ anPc = "done" /\ ~genAI
  /\ anReq = Prompt("string", 0, <<" ", "\t">>)
  /\ anRes = 400 /\ ~anGatewayCalled

\* C10 (stated; the route does not satisfy it): a failed gateway call of /analyze gets exactly one
\* response whose status is that of the failure's class: 401 for a provider
\* status of 401, 429 for 429, 403 for 403, 503 for an error without provider
\* status whose code is ECONNREFUSED, ETIMEDOUT or ENOTFOUND, 500 for an error
\* that shows none of these and whose message names neither the credential,
\* a quota or rate limit, nor a permission; a valid prompt without credential
\* gets 500.
C10_StatusFollowsFailureClass ==
  /\ (anPc = "done" /\ anOut.kind = "rejects") =>
        /\ anSent = 1
        /\ anOut.status = 401 => anRes = 401
        /\ anOut.status = 429 => anRes = 429
        /\ anOut.status = 403 => anRes = 403
        /\ (anOut.status = 0 /\ anOut.code \in ConnectivityCodes) => anRes = 503
        /\ ( /\ anOut.status \in {0, 500} /\ anOut.code \notin ConnectivityCodes
             /\ anOut.includes \cap {"API key", "401", "quota", "rate limit", "429",
                                     "permission"} = {} )
           => anRes = 500
  /\ (anPc = "done" /\ ~InvalidPrompt(anReq) /\ ~genAI) => anRes = 500

\* the model left the property out of improvedPrompt, or left improvedPrompt out
Omitted(f) == ~anOut.hasImproved \/ anOut.improved[f].type = "undefined"

\* the model gave the property a non-empty string
GivenText(f) ==
  anOut.hasImproved /\ anOut.improved[f].type = "string" /\ anOut.improved[f].val # <<>>

\* C11: in every 200 response of /analyze, improvedPrompt has exactly the
\* seven properties; each of role, context, exemplars, persona, format, tone
\* that the model omitted is null; task is the model's task when the model
\* gave one and otherwise the original studentPrompt, and so is always a
\* non-empty string.
C11_ImprovedPromptIsComplete ==
  (anPc = "done" /\ anRes = 200) =>
     /\ DOMAIN anBody = {"role", "context", "task", "exemplars", "persona", "format", "tone"}
     /\ \A f \in DOMAIN anBody : anBody[f].type # "undefined"
     /\ \A f \in {"role", "context", "exemplars", "persona", "format", "tone"} :
           Omitted(f) => anBody[f].type = "null"
     /\ IF GivenText("task")
          THEN anBody["task"] = anOut.improved["task"]
          ELSE anBody["task"].val = anReq.chars
     /\ anBody["task"].type = "string" /\ anBody["task"].val # <<>>

\* C11 witness: the model omitted task and role but gave a tone; the 200
\* response carries the original prompt as task and null as role.
C11_Witness ==
  /\ anPc = "done" /\ anRes = 200 /\ anOut.hasImproved
  /\ anOut.improved["task"].type = "undefined"
  /\ anOut.improved["role"].type = "undefined"
  /\ anOut.improved["tone"].type = "string" /\ anOut.improved["tone"].val # <<>>
  /\ anBody["task"].val = anReq.chars /\ anBody["role"].type = "null"
  /\ anBody["tone"] = anOut.improved["tone"]

\* the tag with this id is in the selection
IsSelected(tagId) == \E i \in 1..Len(_selectedTags) : _selectedTags[i].id = tagId

\* C12: the selection never holds more than 5 tags, and a toggleTagSelection
\* call on an available, unselected tag while 5 are selected leaves
\* selectedTags and availableTags as they were and sets the warning.
C12_SelectionCappedAtFive ==
  /\ [](Len(_selectedTags) <= 5)
  /\ [][ \A i \in 1..Len(_availableTags) :
           ( /\ Len(_selectedTags) = 5
             /\ ~IsSelected(_availableTags[i].id)
             /\ toggleTagSelection(_availableTags[i].id) )
           => ( /\ _selectedTags' = _selectedTags
                /\ _availableTags' = _availableTags
                /\ _error' = "Maximum 5 tags can be selected" ) ]_vars

\* C12 witness: five tags are selected, a sixth one shown is not, and the
\* warning is up.
C12_Witness ==
  /\ Len(_selectedTags) = 5
  /\ \E i \in 1..Len(_availableTags) :
       ~_availableTags[i].selected /\ ~IsSelected(_availableTags[i].id)
  /\ _error = "Maximum 5 tags can be selected"

\* C13 (stated; the service does not satisfy it): conflictWarnings is at all
\* times what the rule table yields for the current selectedTags.
C13_ConflictWarningsFollowSelection ==
  _conflictWarnings = detectConflicts(_selectedTags)

\* generatePrompt is called with a topic and an intent set
GenerateCalled == generatePrompt /\ _topic # "" /\ _intent # Null

\* C14: generatePrompt called with a topic and an intent set and no tag
\* selected writes the fixed default sentence with the topic inserted
\* verbatim, sets isDefaultPrompt and adds nothing to the recent prompts.
C14_ZeroTagsGiveDefaultSentence ==
  [][ (GenerateCalled /\ _selectedTags = <<>>)
      => ( /\ _finalPrompt' =
                <<"Explain \"", _topic,
                  "\" like a class teacher, using simple words with short key points that are easy to understand.">>
           /\ _isDefaultPrompt'
           /\ _recentPrompts' = _recentPrompts ) ]_vars

\* C14 witness: the default sentence was written for the topic "cell" while
\* the recent prompts held one earlier prompt.
C14_Witness ==
  /\ _isDefaultPrompt /\ _topic = "cell" /\ _selectedTags = <<>>
  /\ prevCall.made /\ prevCall.selectedTags = <<>> /\ prevCall.topic = "cell"
  /\ _finalPrompt = prevCall.prompt
  /\ Len(_recentPrompts) = 1

\* the role line the selection calls for
RoleLine ==
  LET roles == {i \in 1..Len(_selectedTags) : _selectedTags[i].category = "role"}
  IN  IF roles = {} THEN <<"Act as a friendly school teacher.">>
      ELSE <<"Act as: ", _selectedTags[CHOOSE i \in roles : \A j \in roles : i <= j].text>>

\* C15: generatePrompt called with at least one tag selected writes the role
\* line (from the first selected tag of category role, else the fixed role
\* sentence), the topic, the requirements numbered 1..n in selection order,
\* and the fixed closing sentence; isDefaultPrompt becomes false.
C15_PromptListsSelectionInOrder ==
  [][ (GenerateCalled /\ Len(_selectedTags) >= 1)
      => LET n == Len(_selectedTags)
             r == Len(RoleLine)
         IN  /\ Len(_finalPrompt') = r + 4 * n + 3
             /\ SubSeq(_finalPrompt', 1, r) = RoleLine
             /\ SubSeq(_finalPrompt', r + 1, r + 3) =
                  <<"\n\nTopic: \"", _topic, "\"\n\nRequirements:\n">>
             /\ \A i \in 1..n :
                  /\ _finalPrompt'[r + 4 * i] = <<"1", "2", "3", "4", "5">>[i]
                  /\ _finalPrompt'[r + 4 * i + 1] = ". "
                  /\ _finalPrompt'[r + 4 * i + 2] = _selectedTags[i].text
                  /\ i > 1 => _finalPrompt'[r + 4 * i - 1] = "\n"
             /\ _finalPrompt'[r + 4 * n + 3] =
                  "\n\nPlease provide a clear, student-friendly explanation."
             /\ ~_isDefaultPrompt' ]_vars

\* C15 witness: a prompt was written for a selection whose first tag is not
\* of category role and whose second is.
C15_Witness ==
  /\ prevCall.made /\ Len(prevCall.selectedTags) = 2
  /\ prevCall.selectedTags[1].category # "role"
  /\ prevCall.selectedTags[2].category = "role"
  /\ _finalPrompt = prevCall.prompt /\ ~_isDefaultPrompt
  /\ _finalPrompt[2] = prevCall.selectedTags[2].text

C17_StaleResponseDiscarded ==
  (inflight = <<>> /\ tagsFrom.by = "stale")
     => (tagsFrom.topic = _topic /\ tagsFrom.intent = _intent)

\* a step in which loadSmartTags replaces the available tags: a pending
\* request is answered, or a load runs while offline
LoadReplacesTags ==
  \/ Len(inflight') < Len(inflight)
  \/ /\ _isOffline /\ length(_topic') >= 4 /\ _intent' # Null
     /\ ((\E intent \in Intents : setIntent(intent)) \/ RetryLoad \/ DebounceFires)

\* C18 (stated; the service does not satisfy it): after a load has replaced
\* the available tags, with server tags or with the fallback tags, the
\* selection is empty.
C18_LoadClearsSelection ==
  [][ LoadReplacesTags => _selectedTags' = <<>> ]_vars

\* C19: each setTopic call cancels the pending timer, so at most one timer is
\* pending, due 500 ms after the last call and only while the topic has at
\* least 4 characters; the load the timer starts uses the last topic; a call
\* with a shorter topic starts no load and leaves no timer pending.
C19_OnlyLastKeystrokeLoads ==
  /\ [](\A due \in timers : due = lastTopicAt + 5 /\ length(_topic) >= 4)
  /\ [][ DebounceFires
         => ( /\ clock = lastTopicAt + 5
              /\ Len(inflight') > Len(inflight)
                   => inflight'[Len(inflight')].topic = _topic ) ]_vars
  /\ [][ (\E topic \in {"", "abc"} : setTopic(topic))
         => (timers' = {} /\ inflight' = inflight) ]_vars

\* C19 witness: the timer fired 500 ms after a setTopic call made after time
\* 0, and the one request pending carries the topic "cell".
C19_Witness ==
  /\ lastTopicAt \in 1..4 /\ clock = lastTopicAt + 5
  /\ timers = {} /\ _topic = "cell"
  /\ Len(inflight) = 1 /\ inflight[1].topic = "cell"

\* C20: setIntent called while the topic has at least 4 characters starts a
\* load in the same step, the clock and the timers untouched; called while
\* the topic is shorter it starts none.
C20_IntentLoadsImmediately ==
  [][ \A intent \in Intents :
        setIntent(intent)
        => IF length(_topic) >= 4
             THEN /\ clock' = clock /\ timers' = timers
                  /\ IF _isOffline
                       THEN _availableTags' = fallbackTags
                       ELSE /\ Len(inflight') = Len(inflight) + 1
                            /\ inflight'[Len(inflight')].topic = _topic
                            /\ inflight'[Len(inflight')].intent = intent
                            /\ _isLoading'
             ELSE /\ inflight' = inflight /\ timers' = timers
                  /\ _availableTags' = _availableTags /\ _isLoading' = _isLoading ]_vars

\* C20 witness: at time 0, before any timer can have fired, a request for the
\* topic "atom" and the intent "test" is pending.
C20_Witness ==
  /\ clock = 0 /\ _isLoading
  /\ Len(inflight) = 1 /\ inflight[1].topic = "atom" /\ inflight[1].intent = "test"
  /\ _intent = "test"

\* a step in which loadSmartTags is entered with a valid topic and intent
LoadStarts ==
  \/ \E intent \in Intents : setIntent(intent) /\ length(_topic) >= 4
  \/ (RetryLoad \/ DebounceFires) /\ length(_topic) >= 4 /\ _intent # Null

\* C21: a load that starts while the service is offline posts no request,
\* installs the static fallback list, sets the offline message and leaves
\* isLoading as it was.
C21_OfflineLoadUsesFallback ==
  [][ (LoadStarts /\ _isOffline)
      => ( /\ inflight' = inflight
           /\ _availableTags' = fallbackTags
           /\ _error' = NoInternet
           /\ _isLoading' = _isLoading ) ]_vars

\* C21 witness: a load ran offline while an earlier request was still
\* pending: the fallback list is shown and isLoading is still true.
C21_Witness ==
  /\ _isOffline /\ tagsFrom.by = "offline"
  /\ _availableTags = fallbackTags /\ _error = NoInternet
  /\ Len(inflight) = 1 /\ _isLoading

\* C22 (stated; the service does not satisfy it): at most one conflict
\* warning is held, whatever the number of rules the selection matches.
C22_AtMostOneConflictWarning ==
  Len(_conflictWarnings) <= 1

\* the candidates of one category array that have 3 or 4 words, in the
\* model's order
Survivors(c) ==
  LET items == tagOut.parsed[c].items
  IN  Keep(items, {i \in 1..Len(items) : WordCount(items[i]) \in {3, 4}}, 1)

\* C23: a success response of the categorized route has fallback=false and
\* a non-empty flat list equal to the survivors of personaStyle, addContext,
\* taskInstruction, formatConstraints and reasoningHelp, in that order, each
\* group in the model's order; when no candidate survives the response is
\* not a success.
C23_FlatListIsGroupsInFixedOrder ==
  (tagPc = "done" /\ routeVariant = "grouped") =>
     /\ tagRes.success =>
          /\ ~tagRes.fallback /\ "fallback" \in tagRes.keys
          /\ tagRes.tags # <<>>
          /\ \A c \in DOMAIN tagRes.groups : tagRes.groups[c] = Survivors(c)
          /\ tagRes.tags = Survivors("personaStyle") \o Survivors("addContext")
                           \o Survivors("taskInstruction")
                           \o Survivors("formatConstraints")
                           \o Survivors("reasoningHelp")
     /\ (tagOut.kind = "json" /\ NoCandidateSurvives) => ~tagRes.success

\* C23 witness: a success response whose flat list is the two persona tags
\* in the model's order followed by a reasoning tag, a 2-word context
\* candidate having been dropped.
C23_Witness ==
  /\ tagPc = "done" /\ routeVariant = "grouped" /\ tagRes.success
  /\ tagOut.parsed.personaStyle.items = <<Messy4, Clean3>>
  /\ tagOut.parsed.addContext.items = <<TooShort>>
  /\ tagOut.parsed.reasoningHelp.items = <<Clean3>>
  /\ tagRes.tags = <<Messy4, Clean3, Clean3>>

\* C24 (stated; the route does not satisfy it): a model output that is not
\* valid JSON is answered with status 500, whatever the message of the parse
\* error includes.
C24_InvalidJsonIs500 ==
  (anPc = "done" /\ anOut.kind = "badJson") => anRes = 500

\* a tag of the builder is clicked and joins the selection
BuilderSelects ==
  BuilderToggle /\ Len(selectedSmartTags') > Len(selectedSmartTags)

\* a stage-2 answer is merged into the list of the builder
Stage2Merged ==
  \E k \in 1..Len(tagFetches) : \E aiResponse \in BuilderAnswers :
    /\ tagFetches[k].stage = 2
    /\ Merges(aiResponse)
    /\ FetchSettles(k, aiResponse)

NoTwoSameText(tags) ==
  \A i, j \in 1..Len(tags) : TagText(tags[i]) = TagText(tags[j]) => i = j

\* C25 (stated; neither snapshot of the builder satisfies it): a selection
\* made while revealStage is 1 starts exactly one stage-2 fetch and moves
\* revealStage to 2, a selection at another stage starts none; and when a
\* stage-2 answer is merged, the list has no two entries with the same text,
\* at most 8 entries, and every tag that was in the list is where it was.
C25_RevealFetchesOnceAndMergesDistinct ==
  [][ /\ (BuilderSelects /\ revealStage = 1)
         => /\ Len(tagFetches') = Len(tagFetches) + 1
            /\ tagFetches'[Len(tagFetches')].stage = 2
            /\ revealStage' = 2
      /\ (BuilderToggle /\ revealStage # 1) => tagFetches' = tagFetches
      /\ Stage2Merged
         => /\ NoTwoSameText(availableSmartTags')
            /\ Len(availableSmartTags') <= 8
            /\ \A i \in 1..Len(availableSmartTags) :
                 /\ i <= Len(availableSmartTags')
                 /\ availableSmartTags'[i] = availableSmartTags[i] ]_vars

\* what holds of both snapshots: one fetch per first selection, and the cap
BuilderFetchesOnceAndCaps ==
  [][ /\ (BuilderSelects /\ revealStage = 1)
         => /\ Len(tagFetches') = Len(tagFetches) + 1
            /\ tagFetches'[Len(tagFetches')].stage = 2
            /\ revealStage' = 2
      /\ (BuilderToggle /\ revealStage # 1) => tagFetches' = tagFetches
      /\ Stage2Merged => Len(availableSmartTags') <= 8 ]_vars

\* in the strings snapshot a merged list has no two equal texts
StringsMergeDistinct ==
  [][ (Stage2Merged /\ builderVariant = "strings")
      => NoTwoSameText(availableSmartTags') ]_vars

\* in the objects snapshot the list in place keeps its positions
ObjectsMergeKeepsPositions ==
  [][ (Stage2Merged /\ builderVariant = "objects")
      => \A i \in 1..Len(availableSmartTags) :
           /\ i <= Len(availableSmartTags')
           /\ availableSmartTags'[i] = availableSmartTags[i] ]_vars

\* the JSON body loadSmartTags posts for a pending request; the metadata
\* detected in the topic plays no part in the endpoint's validation
postBody(load) == [topic |-> load.topic, intent |-> load.intent, detected |-> Null]

\* const { topic, intent, persona, ... } = req.body, for one key
Destructured(body, key) ==
  IF key \notin DOMAIN body THEN Undefined
  ELSE IF body[key] = "" THEN Empty
  ELSE "given"

\* how the endpoint routes the body of a pending request
RouteOfBody(body) ==
  TagsPreflight(Destructured(body, "topic"), Destructured(body, "intent"),
                Destructured(body, "persona"), genAI)

\* C26 (stated; the service does not satisfy it): the body of every pending
\* request of loadSmartTags has the keys topic, intent and persona, and the
\* endpoint's validation does not answer it with 400.
C26_RequestsPassValidation ==
  \A k \in 1..Len(inflight) :
    LET body == postBody(inflight[k])
    IN  /\ {"topic", "intent", "persona"} \subseteq DOMAIN body
        /\ RouteOfBody(body) # "badRequest"

\* what holds instead: topic and intent are sent and are not empty
RequestsCarryTopicAndIntent ==
  \A k \in 1..Len(inflight) :
    LET body == postBody(inflight[k])
    IN  /\ Destructured(body, "topic") = "given"
        /\ Destructured(body, "intent") = "given"
        /\ RouteOfBody(body) = "badRequest"

\* every selected tag is an available tag of the same id and text that is
\* flagged as selected
SelectedAreAvailable ==
  \A i \in 1..Len(_selectedTags) :
    \E j \in 1..Len(_availableTags) :
      /\ _availableTags[j].id = _selectedTags[i].id
      /\ _availableTags[j].text = _selectedTags[i].text
      /\ _availableTags[j].selected

\* every available tag flagged as selected is in the selection
FlaggedAreSelected ==
  \A j \in 1..Len(_availableTags) :
    _availableTags[j].selected =>
      \E i \in 1..Len(_selectedTags) : _selectedTags[i].id = _availableTags[j].id

\* no two available tags share an id
AvailableIdsUnique ==
  \A i, j \in 1..Len(_availableTags) :
    _availableTags[i].id = _availableTags[j].id => i = j

\* C27 (stated; the service does not satisfy it): the selection and the
\* selected flags of the available tags describe the same set of tags, and
\* the ids of the available tags are unique.
C27_SelectionMatchesFlags ==
  SelectedAreAvailable /\ FlaggedAreSelected /\ AvailableIdsUnique

\* the step is a call of setTopic, setIntent or reset
SetCall ==
  \/ \E topic \in {NoTopic, ShortTopic, Atom, Cell} : setTopic(topic)
  \/ \E intent \in Intents : setIntent(intent)
  \/ reset

\* C28 (stated; the service does not satisfy it): after reset(), or after
\* setTopic with a topic of fewer than 4 characters, and until the next call
\* of setTopic or setIntent, no step puts a tag in availableTags or
\* selectedTags or changes isLoading or error.
C28_ClearedStateStays ==
  [][ (sinceClear # "none" /\ ~SetCall)
      => /\ _availableTags' = <<>>
         /\ _selectedTags' = <<>>
         /\ _isLoading' = _isLoading
         /\ _error' = _error ]_vars

\* what holds instead: a cleared state with no request pending stays as it is
ClearedStateStaysWhenIdle ==
  [][ (/\ sinceClear # "none" /\ inflight = <<>> /\ ~SetCall
       /\ _availableTags = <<>> /\ _selectedTags = <<>>)
      => /\ _availableTags' = <<>>
         /\ _selectedTags' = <<>>
         /\ _isLoading' = _isLoading
         /\ _error' = _error ]_vars

\* isLoading is true while a request of loadSmartTags is pending
LoadingWhilePending == inflight # <<>> => _isLoading

\* isLoading is false when no request of loadSmartTags is pending
IdleWhenNonePending == inflight = <<>> => ~_isLoading

\* C29 (stated; the service does not satisfy it): isLoading is true exactly
\* in the states where at least one request of loadSmartTags is pending.
C29_LoadingIffPending == LoadingWhilePending /\ IdleWhenNonePending

\* C30: the analyzer never has two requests pending, isLoading is true
\* exactly while one is pending, a settled request leaves exactly one of
\* analysis and error set, and nothing but a call and its settlement writes
\* the two.
C30_OneAnalysisAtATime ==
  [][ /\ Len(analyzing') <= 1
      /\ isLoading' <=> (analyzing' # <<>>)
      /\ AnalyzerSettles => ((analysis' # NoAnalysis) <=> (error' = Null))
      /\ (~AnalyzerSettles /\ ~AnalyzerAnalyzes) => UNCHANGED <<analysis, error>> ]_vars

\* a call made while the request was pending was ignored, and the request
\* has now failed with an Error whose message is empty
C30_Witness ==
  /\ lastAnalyze = "ignoredLoading"
  /\ ~isLoading
  /\ analyzing = <<>>
  /\ analysis = NoAnalysis
  /\ error = ""

====
